---- MODULE Spec2Model ----
(***************************************************************************)
(* Model of the OAuth2 core of withings-cli: the line-preserving config    *)
(* store, the token lifecycle (EnsureAccessToken: precedence, expiry-aware *)
(* refresh, conditional persistence) and the interactive login flow with   *)
(* its loopback callback listener.                                         *)
(*                                                                         *)
(* Five specifications share the module:                                   *)
(*   Spec       one CLI process after another calling EnsureAccessToken    *)
(*              against an environment, a project file and a user file;    *)
(*   SpecLogin  one `auth login` invocation: the main goroutine, the       *)
(*              callback handlers and the listener;                        *)
(*   SpecCli    `auth login`, EnsureAccessToken and `auth logout`          *)
(*              invocations, one after another on the same files;          *)
(*   SpecConfig one process that loads a config file held as text, sets    *)
(*              and unsets keys, and saves;                                *)
(*   SpecRace   two processes that call EnsureAccessToken side by side on  *)
(*              one user file held as text.                                *)
(*                                                                         *)
(* Time is counted in ticks, TicksPerSecond of them to a second, so that   *)
(* time.Now() can fall between two whole seconds while the timestamps the  *)
(* config file holds (RFC3339) are whole seconds.                          *)
(***************************************************************************)
EXTENDS Integers, Sequences, FiniteSets, TLC

VARIABLES
    env,          \* the process environment (WITHINGS_* variables)
    projectFile,  \* ./withings-cli.toml on disk
    userFile,     \* the user config file on disk
    now,          \* time.Now(), in ticks
    result,       \* what an EnsureAccessToken call that ran last returned and did
    last,         \* the operation that made the last step
    pc,           \* where the main goroutine of `auth login` stands
    ctx,          \* the caller's context: "live" or "cancelled"
    server,       \* the callback listener
    codeCh,       \* authServer.codeCh, the codes buffered in it
    errCh,        \* authServer.errCh, the errors buffered in it
    inflight,     \* callback handlers that have not sent yet, what each sends
    arrived,      \* callback requests accepted so far
    wait,         \* what waitForAuthCode received and returned
    login,        \* what the `auth login` invocation returned and did
    logout,       \* what an `auth logout` that ran last was given and did
    store,        \* a config file as text, and a configFile loaded from it
    race          \* a user file as text, and two invocations working on it

tokenVars == <<env, projectFile, userFile, now, result, last, logout, store, race>>

loginVars == <<pc, ctx, server, codeCh, errCh, inflight, arrived, wait, login>>

vars == <<env, projectFile, userFile, now, result, last,
          pc, ctx, server, codeCh, errCh, inflight, arrived, wait, login,
          logout, store, race>>

(***************************************************************************)
(* Bounds of the model.                                                    *)
(***************************************************************************)
MaxTick == 2

TicksPerSecond == 2

\* Callback requests one login accepts at most.
MaxRequests == 3

(***************************************************************************)
(* Program constants.                                                      *)
(***************************************************************************)
tokenRefreshSkew == 30

exitCodeSuccess == 0

exitCodeFailure == 1

exitCodeUsage == 2

exitCodeAuth == 3

exitCodeNetwork == 4

exitCodeAPI == 5

withingsStatusOK == 0

httpStatusOK == 200

httpStatusMultipleChoices == 300

configKeyClientID == "client_id"

configKeyClientSecret == "client_secret"

configKeyAccessToken == "access_token"

configKeyRefreshToken == "refresh_token"

configKeyScope == "scope"

configKeyTokenType == "token_type"

configKeyUserID == "user_id"

configKeyTokenExpiresAt == "token_expires_at"

configKeyTokenObtained == "token_obtained_at"

(***************************************************************************)
(* Go values.  A string is a record: its text, and the instant (in whole   *)
(* seconds) the text denotes when it is an RFC3339 timestamp, NotATime     *)
(* when it is not.  time.Time is a number of ticks, ZeroTime for the zero  *)
(* value time.Time{}.                                                      *)
(***************************************************************************)
NotATime == -1

ZeroTime == -1

Str(text) == [s |-> text, t |-> NotATime]

emptyString == Str("")

\* time.Time.Format(time.RFC3339): the sub-second part is dropped.
FormatRFC3339(time) == [s |-> "rfc3339", t |-> time \div TicksPerSecond]

\* func parseTime(value string) time.Time
parseTime(value) ==
    IF value = emptyString
    THEN ZeroTime
    ELSE IF value.t = NotATime THEN ZeroTime ELSE value.t * TicksPerSecond

(***************************************************************************)
(* ConfigStore.  A line of the file is modelled by what parseConfigLine    *)
(* makes of it: [key, val] for a `key = value` line, key "" for a line     *)
(* that holds no key (blank, comment, section header).  A file on disk is  *)
(* [exists, lines], lines being strings.Split(data, "\n") of its bytes.    *)
(* Indexes are 1-based here and 0-based in the Go code.                    *)
(***************************************************************************)
KVLine(key, value) == [key |-> key, val |-> value]

BlankLine == [key |-> "", val |-> emptyString]

CommentLine == [key |-> "", val |-> Str("# comment")]

AbsentFile == [exists |-> FALSE, lines |-> <<>>]

\* func parseConfigLine(line string) (configKeyValue, bool): the bool
parseConfigLineOk(line) == line.key # ""

\* The last index of a line holding key: parseLines lets later lines win.
LastIndexOf(lines, key) ==
    CHOOSE i \in 1..Len(lines) :
        /\ lines[i].key = key
        /\ \A j \in (i + 1)..Len(lines) : lines[j].key # key

KeysOf(lines) ==
    {lines[i].key : i \in {j \in 1..Len(lines) : parseConfigLineOk(lines[j])}}

\* func (c *configFile) parseLines()
parseLines(lines) ==
    [Lines |-> lines,
     Values |-> [k \in KeysOf(lines) |-> lines[LastIndexOf(lines, k)].val],
     KeyIndex |-> [k \in KeysOf(lines) |-> LastIndexOf(lines, k)]]

\* func loadConfigFile(path string) (*configFile, error), the read succeeding
loadConfigFile(disk) ==
    IF ~disk.exists
    THEN [Lines |-> <<>>, Values |-> <<>>, KeyIndex |-> <<>>, Exists |-> FALSE]
    ELSE [Lines |-> parseLines(disk.lines).Lines,
          Values |-> parseLines(disk.lines).Values,
          KeyIndex |-> parseLines(disk.lines).KeyIndex,
          Exists |-> TRUE]

\* func (c *configFile) Value(key string) string
Value(c, key) ==
    IF key \in DOMAIN c.Values THEN c.Values[key] ELSE emptyString

\* m[key] = value on a Go map
MapPut(m, key, value) ==
    [k \in (DOMAIN m) \cup {key} |-> IF k = key THEN value ELSE m[k]]

\* delete(m, key) on a Go map
MapDelete(m, key) == [k \in (DOMAIN m) \ {key} |-> m[k]]

\* func (c *configFile) Set(key, value string)
Set(c, key, value) ==
    IF key \in DOMAIN c.KeyIndex
    THEN [c EXCEPT !.Lines[c.KeyIndex[key]] = KVLine(key, value),
                   !.Values = MapPut(c.Values, key, value)]
    ELSE [c EXCEPT !.Lines = Append(c.Lines, KVLine(key, value)),
                   !.KeyIndex = MapPut(c.KeyIndex, key, Len(c.Lines) + 1),
                   !.Values = MapPut(c.Values, key, value)]

\* c.Lines with the line at idx spliced out
RemoveAt(lines, idx) ==
    SubSeq(lines, 1, idx - 1) \o SubSeq(lines, idx + 1, Len(lines))

\* Unset, were it to leave the recorded indexes of the other keys as they are
Unset_NoReindex(c, key) ==
    IF key \notin DOMAIN c.KeyIndex
    THEN c
    ELSE [c EXCEPT !.Lines = RemoveAt(c.Lines, c.KeyIndex[key]),
                   !.Values = MapDelete(c.Values, key),
                   !.KeyIndex = MapDelete(c.KeyIndex, key)]

\* Unset, were it to splice out the line before the line of the key
Unset_LineBefore(c, key) ==
    IF key \notin DOMAIN c.KeyIndex
    THEN c
    ELSE LET idx == IF c.KeyIndex[key] > 1 THEN c.KeyIndex[key] - 1 ELSE 1
             rest == MapDelete(c.KeyIndex, key)
         IN [c EXCEPT !.Lines = RemoveAt(c.Lines, idx),
                      !.Values = MapDelete(c.Values, key),
                      !.KeyIndex = [k \in DOMAIN rest |->
                                      IF rest[k] > idx THEN rest[k] - 1
                                      ELSE rest[k]]]

\* func (c *configFile) Unset(key string)
Unset(c, key) ==
    IF key \notin DOMAIN c.KeyIndex
    THEN c
    ELSE LET idx == c.KeyIndex[key]
             rest == MapDelete(c.KeyIndex, key)
         IN [c EXCEPT !.Lines = RemoveAt(c.Lines, idx),
                      !.Values = MapDelete(c.Values, key),
                      !.KeyIndex = [k \in DOMAIN rest |->
                                      IF rest[k] > idx THEN rest[k] - 1
                                      ELSE rest[k]]]

\* The bytes Save writes, read as lines: strings.Join(c.Lines, "\n") with a
\* "\n" added when there are lines and the join does not end in one.
SavedLines(lines) ==
    IF Len(lines) = 0
    THEN <<BlankLine>>
    ELSE IF Len(lines) >= 2 /\ lines[Len(lines)] = BlankLine
         THEN lines
         ELSE Append(lines, BlankLine)

\* The outcomes of Save: written; an error before the file is opened (the
\* file is as it was); an error after the file was truncated.
SaveOutcomes == {"ok", "failed", "truncated"}

\* func (c *configFile) Save() error: the file afterwards
Save(c, disk, outcome) ==
    CASE outcome = "ok" -> [exists |-> TRUE, lines |-> SavedLines(c.Lines)]
      [] outcome = "failed" -> disk
      [] outcome = "truncated" -> [exists |-> TRUE, lines |-> <<BlankLine>>]

(***************************************************************************)
(* Errors.  An error value is [kind, also, wrapped, code]: kind names the  *)
(* (first) error, also the error joined to it by errors.Join ("nil" when   *)
(* there is none), wrapped tells whether an *exitError is in its chain and *)
(* code is that exitError's code.                                          *)
(***************************************************************************)
nil == [kind |-> "nil", also |-> "nil", wrapped |-> FALSE, code |-> exitCodeSuccess]

\* errors.New / fmt.Errorf / networkError{} / apiError{}: no *exitError
NewError(kind) ==
    [kind |-> kind, also |-> "nil", wrapped |-> FALSE, code |-> exitCodeSuccess]

\* func newExitError(code int, err error) *exitError
newExitError(code, err) ==
    [kind |-> err.kind, also |-> err.also, wrapped |-> TRUE, code |-> code]

\* Execute without its errors.As: every error is a generic failure.
Execute_NoExitError(err) ==
    IF err = nil THEN exitCodeSuccess ELSE exitCodeFailure

\* The exit code Execute returns for the error a command returned.
Execute(err) ==
    IF err = nil
    THEN exitCodeSuccess
    ELSE IF err.wrapped THEN err.code ELSE exitCodeFailure

\* errors.Join(err, other): other may be nil; errors.As searches err first.
Join(err, other) ==
    IF other = nil
    THEN err
    ELSE [kind |-> err.kind, also |-> other.kind,
          wrapped |-> err.wrapped \/ other.wrapped,
          code |-> IF err.wrapped THEN err.code ELSE other.code]

\* errors.As(err, &netErr) and errors.As(err, &apiErr)
IsNetworkError(err) == err.kind = "network"

IsAPIError(err) == err.kind = "api"

\* classifyRefreshError classifying as the exchange does: an API error
\* keeps the API exit code and other errors are generic failures.
classifyRefreshError_AsExchange(err) ==
    IF err = nil
    THEN nil
    ELSE IF err.kind = "network"
         THEN newExitError(exitCodeNetwork, err)
         ELSE IF err.kind = "api"
              THEN newExitError(exitCodeAPI, err)
              ELSE newExitError(exitCodeFailure, err)

\* classifyRefreshError without its errors.As: every error is an auth error.
classifyRefreshError_AllAuth(err) ==
    IF err = nil THEN nil ELSE newExitError(exitCodeAuth, err)

\* func classifyRefreshError(err error) error
classifyRefreshError(err) ==
    IF err = nil
    THEN nil
    ELSE IF IsNetworkError(err)
         THEN newExitError(exitCodeNetwork, err)
         ELSE newExitError(exitCodeAuth, err)

\* func classifyTokenError(err error) error
classifyTokenError(err) ==
    IF err = nil
    THEN nil
    ELSE IF IsNetworkError(err)
         THEN newExitError(exitCodeNetwork, err)
         ELSE IF IsAPIError(err)
              THEN newExitError(exitCodeAPI, err)
              ELSE newExitError(exitCodeFailure, err)

(***************************************************************************)
(* The token endpoint.  A reply is what one POST meets: fault tells where  *)
(* the request fails before a response is read ("build": the request       *)
(* cannot be built, nothing is sent; "transport": http.Client.Do fails;    *)
(* "read": the body cannot be read; "none"), then the HTTP status, whether *)
(* the payload decodes as JSON, the provider status and the body.          *)
(***************************************************************************)
emptyBody ==
    [AccessToken |-> emptyString, RefreshToken |-> emptyString, ExpiresIn |-> 0,
     TokenType |-> emptyString, Scope |-> emptyString, UserID |-> emptyString]

ExpiresInValues == {0, tokenRefreshSkew + 1}

\* The bodies a successful reply carries: complete, and with one of
\* access_token and refresh_token missing.
TokenBodies ==
    {b \in [AccessToken : {Str("new-access"), emptyString},
            RefreshToken : {Str("new-refresh"), emptyString},
            ExpiresIn : ExpiresInValues,
            TokenType : {Str("Bearer")},
            Scope : {Str("user.metrics")},
            UserID : {Str("42")}] :
        /\ b.AccessToken # emptyString \/ b.RefreshToken # emptyString
        /\ b.ExpiresIn = 0 =>
              (b.AccessToken # emptyString /\ b.RefreshToken # emptyString)}

Reply(fault, httpStatus, decodes, status, body) ==
    [fault |-> fault, httpStatus |-> httpStatus, decodes |-> decodes,
     status |-> status, body |-> body]

TokenReplies ==
    {Reply("build", 0, FALSE, 0, emptyBody),
     Reply("transport", 0, FALSE, 0, emptyBody),
     Reply("read", 200, FALSE, 0, emptyBody),
     Reply("none", 500, TRUE, 0, emptyBody),
     Reply("none", 200, FALSE, 0, emptyBody),
     Reply("none", 200, TRUE, 601, emptyBody)}
    \cup {Reply("none", 200, TRUE, withingsStatusOK, b) : b \in TokenBodies}

\* func ensureTokenHTTPStatus(statusCode int, payload []byte) error
ensureTokenHTTPStatus(statusCode) ==
    IF statusCode < httpStatusOK \/ statusCode >= httpStatusMultipleChoices
    THEN NewError("tokenRequestFailed")
    ELSE nil

\* func decodeTokenResponse(payload []byte) (tokenBody, error)
decodeTokenResponse(reply) ==
    IF ~reply.decodes
    THEN [body |-> emptyBody, err |-> NewError("decode")]
    ELSE IF reply.status # withingsStatusOK
         THEN [body |-> emptyBody, err |-> NewError("withingsAPI")]
         ELSE [body |-> reply.body, err |-> nil]

\* doTokenRequest handing the request to the client a second time after a
\* transport failure.
doTokenRequest_Retry(reply) ==
    IF reply.fault = "build"
    THEN [body |-> emptyBody, err |-> NewError("buildRequest"), sent |-> 0]
    ELSE IF reply.fault = "transport"
    THEN [body |-> emptyBody, err |-> NewError("network"), sent |-> 2]
    ELSE IF reply.fault = "read"
            \/ ensureTokenHTTPStatus(reply.httpStatus) # nil
            \/ decodeTokenResponse(reply).err # nil
    THEN [body |-> emptyBody, err |-> NewError("api"), sent |-> 1]
    ELSE [body |-> decodeTokenResponse(reply).body, err |-> nil, sent |-> 1]

\* func doTokenRequest(ctx, tokenURL, values) (tokenBody, error); sent counts
\* the requests handed to http.DefaultClient.Do.
doTokenRequest(reply) ==
    IF reply.fault = "build"
    THEN [body |-> emptyBody, err |-> NewError("buildRequest"), sent |-> 0]
    ELSE IF reply.fault = "transport"
    THEN [body |-> emptyBody, err |-> NewError("network"), sent |-> 1]
    ELSE IF reply.fault = "read"
    THEN [body |-> emptyBody, err |-> NewError("api"), sent |-> 1]
    ELSE IF ensureTokenHTTPStatus(reply.httpStatus) # nil
    THEN [body |-> emptyBody, err |-> NewError("api"), sent |-> 1]
    ELSE IF decodeTokenResponse(reply).err # nil
    THEN [body |-> emptyBody, err |-> NewError("api"), sent |-> 1]
    ELSE [body |-> decodeTokenResponse(reply).body, err |-> nil, sent |-> 1]

\* func refreshToken(ctx, tokenURL, clientID, clientSecret, refresh)
refreshToken(reply) == doTokenRequest(reply)

\* func exchangeToken(ctx, tokenURL, clientID, clientSecret, code, redirectURI)
exchangeToken(reply) == doTokenRequest(reply)

(***************************************************************************)
(* TokenLifecycle.                                                         *)
(***************************************************************************)
\* resolveValueSource with the project config ahead of the environment.
resolveValueSource_ProjectFirst(envValue, projectValue, userValue) ==
    IF projectValue # emptyString
    THEN [Value |-> projectValue, Source |-> "project"]
    ELSE IF envValue # emptyString
         THEN [Value |-> envValue, Source |-> "env"]
         ELSE IF userValue # emptyString
              THEN [Value |-> userValue, Source |-> "user"]
              ELSE [Value |-> emptyString, Source |-> "none"]

\* func resolveValueSource(envValue, projectValue, userValue) resolvedValue
resolveValueSource(envValue, projectValue, userValue) ==
    IF envValue # emptyString
    THEN [Value |-> envValue, Source |-> "env"]
    ELSE IF projectValue # emptyString
         THEN [Value |-> projectValue, Source |-> "project"]
         ELSE IF userValue # emptyString
              THEN [Value |-> userValue, Source |-> "user"]
              ELSE [Value |-> emptyString, Source |-> "none"]

\* func resolveValue(flagValue, envValue, projectValue, userValue) string
resolveValue(flagValue, envValue, projectValue, userValue) ==
    IF flagValue # emptyString
    THEN flagValue
    ELSE IF envValue # emptyString
         THEN envValue
         ELSE IF projectValue # emptyString THEN projectValue ELSE userValue

\* func resolveAuthConfig(redirectOverride string) authClientConfig
resolveAuthConfig(redirectOverride) ==
    [ClientID |-> env.clientID,
     ClientSecret |-> env.clientSecret,
     RedirectURI |->
        resolveValue(redirectOverride, env.redirectURI, emptyString, emptyString)]

\* func buildTokenState(projectConfig, userConfig *configFile) tokenState
buildTokenState(projectConfig, userConfig) ==
    LET accessToken ==
            resolveValueSource(env.access,
                               Value(projectConfig, configKeyAccessToken),
                               Value(userConfig, configKeyAccessToken))
        refreshTok ==
            resolveValueSource(env.refresh,
                               Value(projectConfig, configKeyRefreshToken),
                               Value(userConfig, configKeyRefreshToken))
    IN [AccessToken |-> accessToken.Value,
        AccessSource |-> accessToken.Source,
        RefreshToken |-> refreshTok.Value,
        RefreshSource |-> refreshTok.Source,
        ExpiresAt |-> parseTime(Value(userConfig, configKeyTokenExpiresAt))]

\* tokenState{}
emptyTokenState ==
    [AccessToken |-> emptyString, AccessSource |-> "", RefreshToken |-> emptyString,
     RefreshSource |-> "", ExpiresAt |-> ZeroTime]

\* shouldRefresh without its IsZero test: an unknown expiry counts as passed.
shouldRefresh_NoZeroTest(expiresAt) ==
    now > expiresAt - tokenRefreshSkew * TicksPerSecond

\* shouldRefresh with !Before in the place of After: the instant
\* ExpiresAt - tokenRefreshSkew itself asks for a refresh.
shouldRefresh_NotBefore(expiresAt) ==
    IF expiresAt = ZeroTime
    THEN FALSE
    ELSE now >= expiresAt - tokenRefreshSkew * TicksPerSecond

\* func shouldRefresh(expiresAt time.Time) bool, time.Now() being now
shouldRefresh(expiresAt) ==
    IF expiresAt = ZeroTime
    THEN FALSE
    ELSE now > expiresAt - tokenRefreshSkew * TicksPerSecond

\* func usableAccessToken(state tokenState) string
usableAccessToken(state) ==
    IF state.AccessToken = emptyString
    THEN emptyString
    ELSE IF shouldRefresh(state.ExpiresAt) THEN emptyString ELSE state.AccessToken

\* shouldPersistRefreshedTokens gating on the project tier.
shouldPersistRefreshedTokens_Project(source) == source = "project"

\* shouldPersistRefreshedTokens persisting whatever tier the token came from.
shouldPersistRefreshedTokens_Always(source) == source # "none"

\* func shouldPersistRefreshedTokens(source string) bool
shouldPersistRefreshedTokens(source) == source = "user"

\* persistTokens setting the refresh token whatever the response holds.
persistTokensSets_AlwaysRefresh(config, token) ==
    LET obtainedAt == now
        expiresAt == obtainedAt + token.ExpiresIn * TicksPerSecond
        c1 == Set(config, configKeyAccessToken, token.AccessToken)
        c2 == Set(c1, configKeyRefreshToken, token.RefreshToken)
        c3 == Set(c2, configKeyTokenType, token.TokenType)
        c4 == Set(c3, configKeyScope, token.Scope)
        c5 == Set(c4, configKeyUserID, token.UserID)
        c6 == Set(c5, configKeyTokenExpiresAt, FormatRFC3339(expiresAt))
    IN Set(c6, configKeyTokenObtained, FormatRFC3339(obtainedAt))

\* The Set calls of persistTokens, in their order.
persistTokensSets(config, token) ==
    LET obtainedAt == now
        expiresAt == obtainedAt + token.ExpiresIn * TicksPerSecond
        c1 == Set(config, configKeyAccessToken, token.AccessToken)
        c2 == IF token.RefreshToken # emptyString
              THEN Set(c1, configKeyRefreshToken, token.RefreshToken)
              ELSE c1
        c3 == Set(c2, configKeyTokenType, token.TokenType)
        c4 == Set(c3, configKeyScope, token.Scope)
        c5 == Set(c4, configKeyUserID, token.UserID)
        c6 == Set(c5, configKeyTokenExpiresAt, FormatRFC3339(expiresAt))
    IN Set(c6, configKeyTokenObtained, FormatRFC3339(obtainedAt))

\* func persistTokens(config *configFile, token tokenBody) error: the error
\* and the file afterwards.
persistTokens(config, token, disk, outcome) ==
    [err |-> IF outcome = "ok" THEN nil ELSE NewError("save"),
     disk |-> Save(persistTokensSets(config, token), disk, outcome)]

\* refreshAccessToken, were it to hand the granted access token to the
\* caller beside the error of the save
refreshAccessToken_TokenAnyway(userConfig, state, reply, outcome) ==
    LET idle == [token |-> emptyString, err |-> nil, http |-> 0, saves |-> 0,
                 disk |-> userFile, body |-> emptyBody]
        authConfig == resolveAuthConfig(emptyString)
        got == refreshToken(reply)
        saved == persistTokens(userConfig, got.body, userFile, outcome)
    IN IF state.RefreshToken = emptyString
       THEN [idle EXCEPT !.err = newExitError(exitCodeAuth, NewError("authRequired"))]
       ELSE IF authConfig.ClientID = emptyString
               \/ authConfig.ClientSecret = emptyString
       THEN [idle EXCEPT
               !.err = newExitError(exitCodeAuth, NewError("credentialsMissing"))]
       ELSE IF got.err # nil
       THEN [idle EXCEPT !.err = classifyRefreshError(got.err), !.http = got.sent]
       ELSE IF shouldPersistRefreshedTokens(state.RefreshSource)
       THEN [idle EXCEPT !.token = got.body.AccessToken, !.err = saved.err,
                         !.http = got.sent, !.saves = 1, !.disk = saved.disk,
                         !.body = got.body]
       ELSE [idle EXCEPT !.token = got.body.AccessToken, !.http = got.sent,
                         !.body = got.body]

\* func refreshAccessToken(ctx, opts, userConfig, state) (string, error):
\* token and err are what it returns, http the requests it sent, saves the
\* Save calls it made, disk the user file afterwards.
refreshAccessToken(userConfig, state, reply, outcome) ==
    LET idle == [token |-> emptyString, err |-> nil, http |-> 0, saves |-> 0,
                 disk |-> userFile, body |-> emptyBody]
        authConfig == resolveAuthConfig(emptyString)
        got == refreshToken(reply)
        saved == persistTokens(userConfig, got.body, userFile, outcome)
    IN IF state.RefreshToken = emptyString
       THEN [idle EXCEPT !.err = newExitError(exitCodeAuth, NewError("authRequired"))]
       ELSE IF authConfig.ClientID = emptyString
               \/ authConfig.ClientSecret = emptyString
       THEN [idle EXCEPT
               !.err = newExitError(exitCodeAuth, NewError("credentialsMissing"))]
       ELSE IF got.err # nil
       THEN [idle EXCEPT !.err = classifyRefreshError(got.err), !.http = got.sent]
       ELSE IF shouldPersistRefreshedTokens(state.RefreshSource)
       THEN IF saved.err # nil
            THEN [idle EXCEPT !.err = saved.err, !.http = got.sent, !.saves = 1,
                              !.disk = saved.disk, !.body = got.body]
            ELSE [idle EXCEPT !.token = got.body.AccessToken, !.http = got.sent,
                              !.saves = 1, !.disk = saved.disk, !.body = got.body]
       ELSE [idle EXCEPT !.token = got.body.AccessToken, !.http = got.sent,
                         !.body = got.body]

(***************************************************************************)
(* Spec: EnsureAccessToken calls, one CLI process after another, and the   *)
(* passing of time.                                                        *)
(***************************************************************************)
OptLine(present, line) == IF present THEN <<line>> ELSE <<>>

Envs ==
    {e \in [access : {emptyString, Str("env-access")},
            refresh : {emptyString, Str("env-refresh")},
            clientID : {emptyString, Str("client-id")},
            clientSecret : {emptyString, Str("client-secret")},
            redirectURI : {emptyString}] :
        e.clientID # emptyString \/ e.clientSecret # emptyString}

\* A project file is absent or holds an access token, a refresh token or both.
ProjectFiles ==
    {AbsentFile}
    \cup {[exists |-> TRUE,
           lines |-> OptLine(a, KVLine(configKeyAccessToken, Str("project-access")))
                     \o OptLine(r, KVLine(configKeyRefreshToken, Str("project-refresh")))
                     \o <<BlankLine>>] :
            <<a, r>> \in {<<TRUE, FALSE>>, <<FALSE, TRUE>>, <<TRUE, TRUE>>}}

\* What a user file holds for token_expires_at: no line, a value that is no
\* timestamp, or a timestamp: the instant 0 (passed as soon as time moves)
\* or an instant tokenRefreshSkew and more ahead of it.
StoredExpiries ==
    {<<>>, <<KVLine(configKeyTokenExpiresAt, Str("not-a-time"))>>}
    \cup {<<KVLine(configKeyTokenExpiresAt, FormatRFC3339(0))>>}
    \cup {<<KVLine(configKeyTokenExpiresAt,
                   FormatRFC3339((tokenRefreshSkew + sec) * TicksPerSecond))>> :
            sec \in 0..(MaxTick \div TicksPerSecond)}

UserFiles ==
    {AbsentFile}
    \cup {[exists |-> TRUE,
           lines |-> <<CommentLine>>
                     \o OptLine(a, KVLine(configKeyAccessToken, Str("user-access")))
                     \o OptLine(r, KVLine(configKeyRefreshToken, Str("user-refresh")))
                     \o x
                     \o <<BlankLine>>] :
            a \in BOOLEAN, r \in BOOLEAN, x \in StoredExpiries}

\* No call made yet.  A result holds what the call returned (token, err and
\* the exit code Execute makes of err) and what it did: http requests sent,
\* saves made, the body the token endpoint granted; and, of its run, whether
\* the config files could be read, the token state it built and what
\* usableAccessToken returned for it.
NoResult ==
    [token |-> emptyString, err |-> nil, exit |-> exitCodeSuccess, http |-> 0,
     saves |-> 0, body |-> emptyBody, loaded |-> FALSE, state |-> emptyTokenState,
     usable |-> emptyString]

\* No callback request has been accepted.
NoRequest == [n |-> 0, state |-> "", error |-> "", code |-> emptyString]

\* No `auth login` is running.
NoWait == [got |-> "nothing", code |-> emptyString, from |-> 0, seen |-> 0,
           err |-> nil,
           shutdownErr |-> nil, returned |-> FALSE, retCode |-> emptyString,
           retErr |-> nil]

NoLoginResult == [err |-> nil, exit |-> exitCodeSuccess, http |-> 0, saves |-> 0,
                  code |-> emptyString, body |-> emptyBody]

\* No invocations run side by side.
NoRace ==
    [disk |-> [exists |-> FALSE, data |-> <<>>],
     proc |-> <<>>,
     saved |-> <<>>]

\* No config file is held as text.
NoStore ==
    [disk |-> [exists |-> FALSE, data |-> <<>>],
     c |-> [Lines |-> <<>>, Values |-> <<>>, KeyIndex |-> <<>>, Exists |-> FALSE],
     loaded |-> FALSE, fromFile |-> FALSE, read |-> <<>>, dirty |-> FALSE,
     ops |-> 0,
     key |-> <<>>, value |-> <<>>, saveErr |-> nil]

\* No `auth logout` has run.
NoLogout == [force |-> FALSE, noInput |-> FALSE, tty |-> FALSE, read |-> FALSE,
             answer |-> "", loaded |-> FALSE, err |-> nil,
             exit |-> exitCodeSuccess, saves |-> 0]

NoLogin ==
    /\ pc = "idle"
    /\ ctx = "live"
    /\ server = [started |-> FALSE, listening |-> FALSE, shutdowns |-> 0,
                 failed |-> "no", request |-> NoRequest]
    /\ codeCh = <<>>
    /\ errCh = <<>>
    /\ inflight = <<>>
    /\ arrived = 0
    /\ wait = NoWait
    /\ login = NoLoginResult

Init ==
    /\ env \in Envs
    /\ projectFile \in ProjectFiles
    /\ userFile \in UserFiles
    /\ now = 0
    /\ result = NoResult
    /\ last = "init"
    /\ NoLogin
    /\ logout = NoLogout
    /\ store = NoStore
    /\ race = NoRace

\* The reply and the Save outcome a call meets.  A call that sends no request
\* reads no reply and a call that does not save meets no Save outcome: those
\* are then fixed, so that one call is one step.
UnreadReply == Reply("build", 0, FALSE, 0, emptyBody)

InputsRead(r, reply, outcome) ==
    /\ (r.http = 0 /\ r.err.kind # "buildRequest") => reply = UnreadReply
    /\ r.saves = 0 => outcome = "ok"

\* func ensureAccessToken(ctx, opts) (string, error), as one CLI invocation:
\* loadConfigSources fails (a read error other than "not found"), or the
\* token state is built from what was read and is usable or refreshed.
EnsureAccessToken ==
    /\ last' = "ensure"
    /\ UNCHANGED <<env, projectFile, now, store, race>>
    /\ logout' = NoLogout
    /\ UNCHANGED loginVars
    /\ \/ /\ result' = [NoResult EXCEPT !.err = NewError("readConfig"),
                                        !.exit = Execute(NewError("readConfig"))]
          /\ userFile' = userFile
       \/ LET userConfig == loadConfigFile(userFile)
              state == buildTokenState(loadConfigFile(projectFile), userConfig)
              token == usableAccessToken(state)
          IN IF token # emptyString
             THEN /\ result' = [NoResult EXCEPT !.token = token, !.loaded = TRUE,
                                                !.state = state, !.usable = token]
                  /\ userFile' = userFile
             ELSE \E reply \in TokenReplies, outcome \in SaveOutcomes :
                    LET r == refreshAccessToken(userConfig, state, reply, outcome)
                    IN /\ InputsRead(r, reply, outcome)
                       /\ result' = [token |-> r.token, err |-> r.err,
                                     exit |-> Execute(r.err), http |-> r.http,
                                     saves |-> r.saves, body |-> r.body,
                                     loaded |-> TRUE, state |-> state, usable |-> token]
                       /\ userFile' = r.disk

\* Time passes, by one tick.
Tick ==
    /\ now < MaxTick
    /\ now' = now + 1
    /\ last' = "tick"
    /\ UNCHANGED <<env, projectFile, userFile, result, logout, store, race>>
    /\ UNCHANGED loginVars

Next == EnsureAccessToken \/ Tick

Spec == Init /\ [][Next]_vars

(***************************************************************************)
(* SpecLogin: one `auth login` invocation.  The main goroutine runs        *)
(* runAuthLogin, executeAuthLogin and waitForAuthCode; each accepted       *)
(* callback request runs authCallbackHandler on a goroutine of its own;    *)
(* one more goroutine runs ListenAndServe.                                 *)
(***************************************************************************)
authChannelBufferSize == 1

\* url.Parse(redirectURI) succeeds: of the redirect URIs of the model one
\* does not parse.
invalidRedirectURI == Str("http://[::1")

urlParses(redirectURI) == redirectURI # invalidRedirectURI

\* func requireClientCredentials(config, missingErr) error
requireClientCredentials(config) ==
    IF config.ClientID = emptyString \/ config.ClientSecret = emptyString
    THEN newExitError(exitCodeUsage, NewError("clientCredentialsMissing"))
    ELSE nil

\* func handleAuthOpen(ctx, mode, authorizeURL) error: a browser that does
\* not open is reported on stderr and is no error; a failed write to stderr
\* is one.
handleAuthOpen(noOpen, browserOpens, stderrWrites) ==
    IF noOpen
    THEN IF stderrWrites THEN nil ELSE NewError("writeAuthURL")
    ELSE IF browserOpens
         THEN nil
         ELSE IF stderrWrites THEN nil ELSE NewError("writeBrowserError")

\* The queries of the n-th callback request.
Queries(n) ==
    [n : {n}, state : {"expected", "other"}, error : {"", "access_denied"},
     code : {emptyString, Str("code")}]

\* authCallbackHandler, were it to look at the error parameter and the code
\* and not at the state
authCallbackHandler_NoStateCheck(request) ==
    IF request.error # ""
    THEN [ch |-> "errCh", err |-> NewError("authorizationFailed"),
          code |-> emptyString, from |-> request.n, status |-> 400]
    ELSE IF request.code = emptyString
    THEN [ch |-> "errCh", err |-> NewError("missingAuthCode"),
          code |-> emptyString, from |-> request.n, status |-> 400]
    ELSE [ch |-> "codeCh", err |-> nil, code |-> request.code,
          from |-> request.n, status |-> httpStatusOK]

\* What authCallbackHandler sends for a request, and on which channel.
authCallbackHandler(request) ==
    IF request.state # "expected"
    THEN [ch |-> "errCh", err |-> NewError("stateMismatch"),
          code |-> emptyString, from |-> request.n, status |-> 400]
    ELSE IF request.error # ""
    THEN [ch |-> "errCh", err |-> NewError("authorizationFailed"),
          code |-> emptyString, from |-> request.n, status |-> 400]
    ELSE IF request.code = emptyString
    THEN [ch |-> "errCh", err |-> NewError("missingAuthCode"),
          code |-> emptyString, from |-> request.n, status |-> 400]
    ELSE [ch |-> "codeCh", err |-> nil, code |-> request.code,
          from |-> request.n, status |-> httpStatusOK]

\* A send on the channel would not block.
HasRoom(ch) == Len(ch) < authChannelBufferSize

Blocked(message) ==
    IF message.ch = "codeCh" THEN ~HasRoom(codeCh) ELSE ~HasRoom(errCh)

\* The environments and user files a login starts from.
LoginEnvs ==
    {e \in [access : {emptyString}, refresh : {emptyString},
            clientID : {Str("client-id")},
            clientSecret : {emptyString, Str("client-secret")},
            redirectURI : {emptyString, invalidRedirectURI}] :
        e.clientSecret = emptyString => e.redirectURI = emptyString}

LoginUserFiles ==
    {AbsentFile,
     [exists |-> TRUE,
      lines |-> <<CommentLine, KVLine(configKeyAccessToken, Str("user-access")),
                  KVLine(configKeyRefreshToken, Str("user-refresh")), BlankLine>>]}

InitLogin ==
    /\ env \in LoginEnvs
    /\ projectFile = AbsentFile
    /\ userFile \in LoginUserFiles
    /\ now = 0
    /\ result = NoResult
    /\ last = "init"
    /\ NoLogin
    /\ logout = NoLogout
    /\ store = NoStore
    /\ race = NoRace

\* The invocation returns err.
Return(err) ==
    /\ pc' = "done"
    /\ login' = [login EXCEPT !.err = err, !.exit = Execute(err)]

\* func runAuthLogin, up to the start of the listener in waitForAuthCode:
\* the config is read, the client credentials are required, the redirect
\* URI is parsed and startAuthServer starts the listener.
RunAuthLogin ==
    /\ pc = "idle"
    /\ last' = "login"
    /\ UNCHANGED <<env, projectFile, userFile, now, result, logout, store, race>>
    /\ UNCHANGED <<ctx, codeCh, errCh, inflight, arrived, wait>>
    /\ \/ /\ Return(NewError("readConfig"))
          /\ UNCHANGED server
       \/ LET authConfig == resolveAuthConfig(emptyString)
              missing == requireClientCredentials(authConfig)
          IN IF missing # nil
             THEN Return(missing) /\ UNCHANGED server
             ELSE IF ~urlParses(authConfig.RedirectURI)
             THEN Return(NewError("invalidRedirectURI")) /\ UNCHANGED server
             ELSE /\ pc' = "opening"
                  /\ server' = [server EXCEPT !.started = TRUE, !.listening = TRUE]
                  /\ UNCHANGED login

\* The listener once the request it accepted has been handed to its handler:
\* server.request is the request accepted in the step just taken.
Idle(srv) == [srv EXCEPT !.request = NoRequest]

\* waitForAuthCode returning the error of handleAuthOpen without shutting
\* the listener down.
HandleAuthOpen_NoShutdown ==
    /\ pc = "opening"
    /\ last' = "open"
    /\ \E noOpen \in BOOLEAN, browserOpens \in BOOLEAN, stderrWrites \in BOOLEAN :
         LET err == handleAuthOpen(noOpen, browserOpens, stderrWrites)
         IN IF err # nil
            THEN /\ Return(err)
                 /\ wait' = [wait EXCEPT !.got = "openError", !.err = err,
                                         !.returned = TRUE, !.retErr = err]
            ELSE /\ pc' = "awaiting"
                 /\ wait' = wait
                 /\ login' = login
    /\ UNCHANGED <<env, projectFile, userFile, now, result, logout, store, race>>
    /\ UNCHANGED <<ctx, codeCh, errCh, inflight, arrived>>
    /\ server' = Idle(server)

\* waitForAuthCode, lines 205-210: the authorize URL is opened or printed;
\* a failure leads to the shutdown of the listener.
HandleAuthOpen ==
    /\ pc = "opening"
    /\ last' = "open"
    /\ \E noOpen \in BOOLEAN, browserOpens \in BOOLEAN, stderrWrites \in BOOLEAN :
         LET err == handleAuthOpen(noOpen, browserOpens, stderrWrites)
         IN IF err # nil
            THEN /\ pc' = "stopping"
                 /\ wait' = [wait EXCEPT !.got = "openError", !.err = err]
            ELSE /\ pc' = "awaiting"
                 /\ wait' = wait
    /\ UNCHANGED <<env, projectFile, userFile, now, result, logout, store, race>>
    /\ UNCHANGED <<ctx, codeCh, errCh, inflight, arrived, login>>
    /\ server' = Idle(server)

\* awaitAuthCode, were it to take what the error channel holds as well when
\* it receives a code
AwaitAuthCode_Drain ==
    /\ pc = "awaiting"
    /\ last' = "await"
    /\ pc' = "stopping"
    /\ \/ /\ codeCh # <<>>
          /\ wait' = [wait EXCEPT !.got = "code", !.code = Head(codeCh).msg.code,
                                  !.from = Head(codeCh).msg.from,
                                  !.seen = Head(codeCh).seen]
          /\ codeCh' = Tail(codeCh)
          /\ errCh' = <<>>
       \/ /\ errCh # <<>>
          /\ wait' = [wait EXCEPT !.got = "error", !.err = Head(errCh).msg.err,
                                  !.from = Head(errCh).msg.from,
                                  !.seen = Head(errCh).seen]
          /\ errCh' = Tail(errCh)
          /\ codeCh' = codeCh
       \/ /\ wait' = [wait EXCEPT
                         !.got = IF ctx = "cancelled" THEN "cancelled" ELSE "timeout",
                         !.err = NewError("authTimedOut")]
          /\ UNCHANGED <<codeCh, errCh>>
    /\ UNCHANGED <<env, projectFile, userFile, now, result, logout, store, race>>
    /\ UNCHANGED <<ctx, inflight, arrived, login>>
    /\ server' = Idle(server)

\* func awaitAuthCode(ctx, codeCh, errCh) (string, error): the select takes
\* a code, an error, or the end of the wait (the two minutes of
\* authCallbackTimeout passed, or the caller's context was cancelled).
AwaitAuthCode ==
    /\ pc = "awaiting"
    /\ last' = "await"
    /\ pc' = "stopping"
    /\ \/ /\ codeCh # <<>>
          /\ wait' = [wait EXCEPT !.got = "code", !.code = Head(codeCh).msg.code,
                                  !.from = Head(codeCh).msg.from,
                                  !.seen = Head(codeCh).seen]
          /\ codeCh' = Tail(codeCh)
          /\ errCh' = errCh
       \/ /\ errCh # <<>>
          /\ wait' = [wait EXCEPT !.got = "error", !.err = Head(errCh).msg.err,
                                  !.from = Head(errCh).msg.from,
                                  !.seen = Head(errCh).seen]
          /\ errCh' = Tail(errCh)
          /\ codeCh' = codeCh
       \/ /\ wait' = [wait EXCEPT
                         !.got = IF ctx = "cancelled" THEN "cancelled" ELSE "timeout",
                         !.err = NewError("authTimedOut")]
          /\ UNCHANGED <<codeCh, errCh>>
    /\ UNCHANGED <<env, projectFile, userFile, now, result, logout, store, race>>
    /\ UNCHANGED <<ctx, inflight, arrived, login>>
    /\ server' = Idle(server)

\* func shutdownAuthServer(ctx, server) error, its call of server.Shutdown:
\* the listener is closed.
ShutdownAuthServer ==
    /\ pc = "stopping"
    /\ last' = "shutdown"
    /\ pc' = "shutting"
    /\ server' = [server EXCEPT !.request = NoRequest, !.listening = FALSE, !.shutdowns = @ + 1]
    /\ UNCHANGED <<env, projectFile, userFile, now, result, logout, store, race>>
    /\ UNCHANGED <<ctx, codeCh, errCh, inflight, arrived, wait, login>>

\* waitForAuthCode, were it to return a received code whatever the shutdown
\* returned
waitForAuthCodeReturn_CodeFirst(received, shutdownErr) ==
    IF received.err # nil
    THEN [code |-> emptyString, err |-> Join(received.err, shutdownErr)]
    ELSE [code |-> received.code, err |-> nil]

\* What waitForAuthCode returns once the shutdown has returned shutdownErr
\* (lines 210 and 220-229).
waitForAuthCodeReturn(received, shutdownErr) ==
    IF received.err # nil
    THEN [code |-> emptyString, err |-> Join(received.err, shutdownErr)]
    ELSE IF shutdownErr # nil
         THEN [code |-> emptyString, err |-> shutdownErr]
         ELSE [code |-> received.code, err |-> nil]

\* server.Shutdown returns and with it shutdownAuthServer and
\* waitForAuthCode: nil once no handler is in flight; the context's error
\* when handlers are in flight and the shutdown context is done, which is at
\* once under a cancelled caller's context and after authShutdownTimeout
\* when the handlers in flight are blocked.  The error wraps the context's:
\* context.Canceled or context.DeadlineExceeded.  executeAuthLogin returns
\* the error of waitForAuthCode as it is.
ShutdownReturns ==
    /\ pc = "shutting"
    /\ last' = "stopped"
    /\ \E shutdownErr \in {nil, NewError("shutdownCanceled"),
                           NewError("shutdownDeadlineExceeded")} :
         /\ shutdownErr = nil => inflight = <<>>
         /\ shutdownErr.kind = "shutdownCanceled" =>
              (inflight # <<>> /\ ctx = "cancelled")
         /\ shutdownErr.kind = "shutdownDeadlineExceeded" =>
              /\ inflight # <<>>
              /\ ctx = "live"
              /\ \A i \in 1..Len(inflight) : Blocked(inflight[i])
         /\ LET ret == waitForAuthCodeReturn(wait, shutdownErr)
            IN /\ wait' = [wait EXCEPT !.shutdownErr = shutdownErr,
                                       !.returned = TRUE,
                                       !.retCode = ret.code, !.retErr = ret.err]
               /\ IF ret.err # nil
                  THEN Return(ret.err)
                  ELSE pc' = "exchange" /\ login' = [login EXCEPT !.code = ret.code]
    /\ UNCHANGED <<env, projectFile, userFile, now, result, logout, store, race>>
    /\ UNCHANGED <<ctx, codeCh, errCh, inflight, arrived>>
    /\ server' = Idle(server)

\* executeAuthLogin, were it to persist what the exchange returned without
\* looking at its error
ExchangeAndPersist_PersistFirst ==
    /\ pc = "exchange"
    /\ last' = "exchange"
    /\ pc' = "done"
    /\ \E reply \in TokenReplies, outcome \in SaveOutcomes :
         LET got == exchangeToken(reply)
             saved == persistTokens(loadConfigFile(userFile), got.body, userFile,
                                    outcome)
         IN /\ ctx = "cancelled" => reply.fault \in {"build", "transport"}
            /\ login' = [login EXCEPT !.err = saved.err,
                                      !.exit = Execute(saved.err),
                                      !.http = got.sent, !.saves = 1,
                                      !.body = got.body]
            /\ userFile' = saved.disk
    /\ UNCHANGED <<env, projectFile, now, result, logout, store, race>>
    /\ UNCHANGED <<ctx, codeCh, errCh, inflight, arrived, wait>>
    /\ server' = Idle(server)

\* executeAuthLogin, lines 110-130: the code is exchanged and the tokens
\* are persisted in the user config read at the start.  Under a cancelled
\* context the request fails in transport.
ExchangeAndPersist ==
    /\ pc = "exchange"
    /\ last' = "exchange"
    /\ pc' = "done"
    /\ \E reply \in TokenReplies, outcome \in SaveOutcomes :
         LET got == exchangeToken(reply)
             saved == persistTokens(loadConfigFile(userFile), got.body, userFile,
                                    outcome)
         IN /\ ctx = "cancelled" => reply.fault \in {"build", "transport"}
            /\ IF got.err # nil
               THEN /\ login' = [login EXCEPT !.err = classifyTokenError(got.err),
                                              !.exit = Execute(classifyTokenError(got.err)),
                                              !.http = got.sent]
                    /\ userFile' = userFile
               ELSE /\ login' = [login EXCEPT !.err = saved.err,
                                              !.exit = Execute(saved.err),
                                              !.http = got.sent, !.saves = 1,
                                              !.body = got.body]
                    /\ userFile' = saved.disk
    /\ UNCHANGED <<env, projectFile, now, result, logout, store, race>>
    /\ UNCHANGED <<ctx, codeCh, errCh, inflight, arrived, wait>>
    /\ server' = Idle(server)

\* The listener accepts a callback request: its handler starts.
Arrive ==
    /\ server.listening
    /\ arrived < MaxRequests
    /\ last' = "arrive"
    /\ arrived' = arrived + 1
    /\ \E request \in Queries(arrived + 1) :
         /\ inflight' = Append(inflight, authCallbackHandler(request))
         /\ server' = [server EXCEPT !.request = request]
    /\ UNCHANGED <<env, projectFile, userFile, now, result, logout, store, race>>
    /\ UNCHANGED <<pc, ctx, codeCh, errCh, wait, login>>

\* A handler sends on its channel, which has room, answers and ends.  With
\* what is sent the channel keeps, for the record, how many requests had
\* arrived by then.
HandlerSends ==
    /\ pc # "done"
    /\ last' = "send"
    /\ \E i \in 1..Len(inflight) :
         /\ ~Blocked(inflight[i])
         /\ IF inflight[i].ch = "codeCh"
            THEN /\ codeCh' = Append(codeCh, [msg |-> inflight[i], seen |-> arrived])
                 /\ errCh' = errCh
            ELSE /\ errCh' = Append(errCh, [msg |-> inflight[i], seen |-> arrived])
                 /\ codeCh' = codeCh
         /\ inflight' = RemoveAt(inflight, i)
    /\ UNCHANGED <<env, projectFile, userFile, now, result, logout, store, race>>
    /\ UNCHANGED <<pc, ctx, arrived, wait, login>>
    /\ server' = Idle(server)

\* startAuthServer's goroutine: ListenAndServe fails with an error other
\* than ErrServerClosed.
ListenFails ==
    /\ server.listening
    /\ server.failed = "no"
    /\ last' = "listenFails"
    /\ server' = [server EXCEPT !.request = NoRequest, !.listening = FALSE, !.failed = "pending"]
    /\ UNCHANGED <<env, projectFile, userFile, now, result, logout, store, race>>
    /\ UNCHANGED <<pc, ctx, codeCh, errCh, inflight, arrived, wait, login>>

\* startAuthServer's goroutine sends the error of ListenAndServe.
ListenErrorSent ==
    /\ pc # "done"
    /\ server.failed = "pending"
    /\ HasRoom(errCh)
    /\ last' = "listenError"
    /\ server' = [server EXCEPT !.request = NoRequest, !.failed = "sent"]
    /\ errCh' = Append(errCh, [msg |-> [ch |-> "errCh", err |-> NewError("listen"),
                                        code |-> emptyString, from |-> 0,
                                        status |-> 0],
                               seen |-> arrived])
    /\ UNCHANGED <<env, projectFile, userFile, now, result, logout, store, race>>
    /\ UNCHANGED <<pc, ctx, codeCh, inflight, arrived, wait, login>>

\* The caller's context is cancelled (a signal) while the login waits or
\* shuts the listener down.
Cancel ==
    /\ pc \in {"opening", "awaiting", "stopping", "shutting"}
    /\ ctx = "live"
    /\ last' = "cancel"
    /\ ctx' = "cancelled"
    /\ UNCHANGED <<env, projectFile, userFile, now, result, logout, store, race>>
    /\ UNCHANGED <<pc, codeCh, errCh, inflight, arrived, wait, login>>
    /\ server' = Idle(server)

NextLogin ==
    \/ RunAuthLogin
    \/ HandleAuthOpen
    \/ AwaitAuthCode
    \/ ShutdownAuthServer
    \/ ShutdownReturns
    \/ ExchangeAndPersist
    \/ Arrive
    \/ HandlerSends
    \/ ListenFails
    \/ ListenErrorSent
    \/ Cancel

SpecLogin == InitLogin /\ [][NextLogin]_vars

(***************************************************************************)
(* SpecCli: CLI invocations one after another on the same files: `auth     *)
(* login` with its callback traffic, commands that call                    *)
(* EnsureAccessToken, and the passing of time between them.                *)
(***************************************************************************)
\* Callback requests a login of SpecCli accepts at most.
MaxCliRequests == 1

CliEnvs ==
    {[access |-> emptyString, refresh |-> emptyString,
      clientID |-> Str("client-id"), clientSecret |-> Str("client-secret"),
      redirectURI |-> emptyString]}

\* The project file of SpecCli: hand-written, with a client secret in it.
CliProjectFile ==
    [exists |-> TRUE,
     lines |-> <<CommentLine, KVLine(configKeyClientSecret, Str("file-secret")),
                 BlankLine>>]

\* The user file of SpecCli is absent, or holds a token record whose expiry
\* has passed as soon as time moves, or is a hand-edited file with a client
\* id and two lines for access_token.
CliUserFiles ==
    {AbsentFile,
     [exists |-> TRUE,
      lines |-> <<CommentLine, KVLine(configKeyAccessToken, Str("user-access")),
                  KVLine(configKeyRefreshToken, Str("user-refresh")),
                  KVLine(configKeyTokenExpiresAt, FormatRFC3339(0)),
                  BlankLine>>],
     [exists |-> TRUE,
      lines |-> <<KVLine(configKeyClientID, Str("file-client-id")),
                  KVLine(configKeyAccessToken, Str("stale-access")),
                  CommentLine,
                  KVLine(configKeyAccessToken, Str("user-access")),
                  KVLine(configKeyRefreshToken, Str("user-refresh")),
                  KVLine(configKeyTokenExpiresAt, FormatRFC3339(0)),
                  BlankLine>>]}

InitCli ==
    /\ env \in CliEnvs
    /\ projectFile = CliProjectFile
    /\ userFile \in CliUserFiles
    /\ now = 0
    /\ result = NoResult
    /\ last = "init"
    /\ NoLogin
    /\ logout = NoLogout
    /\ store = NoStore
    /\ race = NoRace

\* The `auth login` process exits: its goroutines, channels and listener
\* are gone.
Exit ==
    /\ pc = "done"
    /\ last' = "exit"
    /\ pc' = "idle"
    /\ ctx' = "live"
    /\ server' = [started |-> FALSE, listening |-> FALSE, shutdowns |-> 0,
                  failed |-> "no", request |-> NoRequest]
    /\ codeCh' = <<>>
    /\ errCh' = <<>>
    /\ inflight' = <<>>
    /\ arrived' = 0
    /\ wait' = NoWait
    /\ login' = NoLoginResult
    /\ UNCHANGED <<env, projectFile, userFile, now, result, logout, store, race>>

\* What the user may type at the prompt of `auth logout`.
Answers == {"y", " Yes", "n", ""}

\* strings.ToLower(strings.TrimSpace(answer)), on Answers
lowerTrimmed(answer) ==
    CASE answer = " Yes" -> "yes"
      [] OTHER -> answer

\* func readLine(prompt, opts) (string, error): the line read, trimmed
readLine(noInput, tty, promptWrites, reads, line) ==
    IF noInput \/ ~tty
    THEN [line |-> "", err |-> NewError("inputRequired")]
    ELSE IF ~promptWrites
    THEN [line |-> "", err |-> NewError("writePrompt")]
    ELSE IF ~reads
    THEN [line |-> "", err |-> NewError("readInput")]
    ELSE [line |-> line, err |-> nil]

\* func confirm(prompt, opts) (bool, error)
confirm(noInput, tty, promptWrites, reads, line) ==
    LET read == readLine(noInput, tty, promptWrites, reads, line)
    IN IF read.err # nil
       THEN [ok |-> FALSE, err |-> read.err]
       ELSE [ok |-> lowerTrimmed(read.line) \in {"y", "yes"}, err |-> nil]

\* confirmLogout, were it to proceed without asking
confirmLogout_NoPrompt(force, noInput, tty, promptWrites, reads, line) ==
    [proceed |-> TRUE, err |-> nil]

\* func confirmLogout(opts, globalOpts) (bool, error)
confirmLogout(force, noInput, tty, promptWrites, reads, line) ==
    LET asked == confirm(noInput, tty, promptWrites, reads, line)
    IN IF force
       THEN [proceed |-> TRUE, err |-> nil]
       ELSE IF asked.err # nil
            THEN [proceed |-> FALSE, err |-> newExitError(exitCodeUsage, asked.err)]
            ELSE [proceed |-> asked.ok, err |-> nil]

\* removeTokenKeys, were it to unset the client credentials as well
removeTokenKeys_AllKeys(config) ==
    [config EXCEPT !.Lines =
        SelectSeq(config.Lines, LAMBDA line : ~parseConfigLineOk(line))]

\* func removeTokenKeys(config *configFile)
removeTokenKeys(config) ==
    Unset(Unset(Unset(Unset(Unset(Unset(Unset(config,
        configKeyAccessToken), configKeyRefreshToken), configKeyTokenType),
        configKeyScope), configKeyUserID), configKeyTokenExpiresAt),
        configKeyTokenObtained)

\* Inputs a logout does not read are fixed, so that one logout is one step:
\* no line is typed when there is no prompt, and a forced logout looks at
\* neither the terminal nor --no-input.
LogoutInputsRead(force, noInput, tty, promptWrites, reads, line, proceed, outcome) ==
    /\ force => (~noInput /\ tty)
    /\ (force \/ noInput \/ ~tty) => promptWrites
    /\ (force \/ noInput \/ ~tty \/ ~promptWrites) => reads
    /\ (force \/ noInput \/ ~tty \/ ~promptWrites \/ ~reads) => line = ""
    /\ ~proceed => outcome = "ok"

\* func runAuthLogout(cmd, opts) error, as one CLI invocation.
Logout ==
    /\ last' = "logout"
    /\ result' = NoResult
    /\ UNCHANGED <<env, projectFile, now, store, race>>
    /\ UNCHANGED loginVars
    /\ \/ /\ logout' = [NoLogout EXCEPT !.err = NewError("readConfig"),
                                        !.exit = Execute(NewError("readConfig"))]
          /\ userFile' = userFile
       \/ \E force \in BOOLEAN, noInput \in BOOLEAN, tty \in BOOLEAN,
             promptWrites \in BOOLEAN, reads \in BOOLEAN, line \in Answers,
             outcome \in SaveOutcomes :
            LET userConfig == loadConfigFile(userFile)
                asked == confirmLogout(force, noInput, tty, promptWrites, reads, line)
                given == [NoLogout EXCEPT !.force = force, !.noInput = noInput,
                                          !.tty = tty, !.answer = line,
                                          !.read = ~force /\ asked.err = nil,
                                          !.loaded = TRUE]
                saveErr == IF outcome = "ok" THEN nil ELSE NewError("save")
            IN /\ LogoutInputsRead(force, noInput, tty, promptWrites, reads, line,
                                   asked.proceed, outcome)
               /\ IF asked.err # nil
                  THEN /\ logout' = [given EXCEPT !.err = asked.err,
                                                  !.exit = Execute(asked.err)]
                       /\ userFile' = userFile
                  ELSE IF ~asked.proceed
                  THEN /\ logout' = given
                       /\ userFile' = userFile
                  ELSE /\ logout' = [given EXCEPT !.err = saveErr,
                                                  !.exit = Execute(saveErr),
                                                  !.saves = 1]
                       /\ userFile' = Save(removeTokenKeys(userConfig), userFile,
                                           outcome)

\* A step of an `auth login` that is the first command to run, or follows
\* other logins only.
CliLogin ==
    /\ result = NoResult
    /\ logout = NoLogout
    /\ NextLogin
    /\ arrived' <= MaxCliRequests

NextCli ==
    \/ CliLogin
    \/ Exit
    \/ pc = "idle" /\ EnsureAccessToken
    \/ pc = "idle" /\ Tick
    \/ pc = "idle" /\ Logout

SpecCli == InitCli /\ [][NextCli]_vars

(***************************************************************************)
(* Claims about the token lifecycle, checked under Spec.                   *)
(***************************************************************************)
\* The state is the one an EnsureAccessToken call that read its config files
\* has just left.
Called == last = "ensure" /\ result.loaded

\* The skew in ticks.
SkewTicks == tokenRefreshSkew * TicksPerSecond

\* The first non-empty of the three tiers' values, and the tier it is from.
FirstNonEmpty(envValue, projectValue, userValue) ==
    IF envValue # emptyString THEN envValue
    ELSE IF projectValue # emptyString THEN projectValue ELSE userValue

FirstTier(envValue, projectValue, userValue) ==
    IF envValue # emptyString THEN "env"
    ELSE IF projectValue # emptyString THEN "project"
    ELSE IF userValue # emptyString THEN "user" ELSE "none"

\* C1: whenever the access token resolved by precedence is non-empty and
\* not stale (its expiry is unknown, or now is before the expiry minus the
\* skew), the call returns exactly that token without error, sends no HTTP
\* request, makes no Save and leaves both config files as they were.
C1_UsableTokenNoHTTPNoWrite ==
    [][(/\ last' = "ensure"
        /\ result'.loaded
        /\ FirstNonEmpty(env.access,
                         Value(loadConfigFile(projectFile), configKeyAccessToken),
                         Value(loadConfigFile(userFile), configKeyAccessToken))
             # emptyString
        /\ \/ parseTime(Value(loadConfigFile(userFile), configKeyTokenExpiresAt))
                = ZeroTime
           \/ now < parseTime(Value(loadConfigFile(userFile),
                                    configKeyTokenExpiresAt)) - SkewTicks)
       => (/\ result'.token =
                FirstNonEmpty(env.access,
                              Value(loadConfigFile(projectFile), configKeyAccessToken),
                              Value(loadConfigFile(userFile), configKeyAccessToken))
           /\ result'.err = nil
           /\ result'.http = 0
           /\ result'.saves = 0
           /\ userFile' = userFile
           /\ projectFile' = projectFile)]_vars

\* C1 witness: the project file holds the access token, the environment
\* none, the expiry is ahead by more than the skew, and the call returned
\* the project's token with no request sent.
C1_Witness ==
    /\ Called
    /\ env.access = emptyString
    /\ result.state.AccessSource = "project"
    /\ result.state.ExpiresAt # ZeroTime
    /\ now < result.state.ExpiresAt - SkewTicks
    /\ result.token = Str("project-access")
    /\ result.http = 0

\* The preconditions of the refresh scenario: access and refresh token both
\* from the user config, the stored expiry passed, client id and secret set.
RefreshScenario ==
    /\ Called
    /\ result.state.AccessSource = "user"
    /\ result.state.RefreshSource = "user"
    /\ result.state.ExpiresAt # ZeroTime
    /\ now > result.state.ExpiresAt
    /\ env.clientID # emptyString
    /\ env.clientSecret # emptyString

\* C2: in the refresh scenario the call sends exactly one request (none only
\* when the request cannot be built), fails only for a failure of that request
\* or of the save, and otherwise returns the access token of the reply, which
\* the user file then holds.
C2_ExpiredUserTokenRefreshed ==
    RefreshScenario =>
        /\ result.err.kind # "buildRequest" => result.http = 1
        /\ result.http <= 1
        /\ result.err # nil =>
             result.err.kind \in {"buildRequest", "network", "api", "save"}
        /\ result.err = nil =>
             /\ result.saves = 1
             /\ result.token = result.body.AccessToken
             /\ Value(loadConfigFile(userFile), configKeyAccessToken)
                  = result.body.AccessToken

\* C2 witness: the scenario, one request sent, the new token returned and
\* held by the user file.
C2_Witness ==
    /\ RefreshScenario
    /\ result.err = nil
    /\ result.http = 1
    /\ result.token = Str("new-access")
    /\ Value(loadConfigFile(userFile), configKeyAccessToken) = Str("new-access")

\* usableAccessToken gave nothing: no access token, or a known expiry with
\* now after the expiry minus the skew.
NothingUsable ==
    \/ result.state.AccessToken = emptyString
    \/ /\ result.state.ExpiresAt # ZeroTime
       /\ now > result.state.ExpiresAt - SkewTicks

\* C3: with no refresh token in any tier and no usable access token the call
\* fails with errAuthRequired under the auth exit code, returns no token and
\* sends no request.
C3_NoRefreshTokenAuthRequired ==
    (Called /\ result.state.RefreshSource = "none" /\ NothingUsable) =>
        /\ result.err.kind = "authRequired"
        /\ result.exit = exitCodeAuth
        /\ result.token = emptyString
        /\ result.http = 0
        /\ result.saves = 0

\* C3 witness: a stale user access token, no refresh token anywhere, the
\* call failed with the auth exit code.
C3_Witness ==
    /\ Called
    /\ result.state.RefreshSource = "none"
    /\ result.state.AccessSource = "user"
    /\ NothingUsable
    /\ result.exit = exitCodeAuth
    /\ result.http = 0

\* C4: a call writes the user file only if the refresh token it used came
\* from the user tier: with the refresh token from the environment or the
\* project file (or none) it makes no Save and the user file is unchanged.
C4_PersistOnlyUserTier ==
    [][(last' = "ensure" /\ result'.loaded
        /\ result'.state.RefreshSource # "user")
       => (result'.saves = 0 /\ userFile' = userFile)]_vars

\* C4 witness: a refresh with the environment's refresh token succeeded and
\* the user file does not hold the new access token.
C4_Witness ==
    /\ Called
    /\ result.state.RefreshSource = "env"
    /\ result.err = nil
    /\ result.http = 1
    /\ result.token = Str("new-access")
    /\ result.saves = 0
    /\ Value(loadConfigFile(userFile), configKeyAccessToken) # Str("new-access")

\* C5 as claimed: for a non-empty access token and a known expiry,
\* usableAccessToken returns the token when now < ExpiresAt - 30s and nothing
\* when now >= ExpiresAt - 30s; with an unknown expiry it returns the token.
C5_SkewBoundaryAsClaimed ==
    (Called /\ result.state.AccessToken # emptyString) =>
        IF result.state.ExpiresAt = ZeroTime
        THEN result.usable = result.state.AccessToken
        ELSE IF now < result.state.ExpiresAt - SkewTicks
             THEN result.usable = result.state.AccessToken
             ELSE result.usable = emptyString

\* C5 amended: for a non-empty access token and a known expiry,
\* usableAccessToken returns the token when now <= ExpiresAt - 30s (that
\* instant included) and nothing when now > ExpiresAt - 30s; with an unknown
\* expiry it returns the token.
C5_SkewBoundary ==
    (Called /\ result.state.AccessToken # emptyString) =>
        IF result.state.ExpiresAt = ZeroTime
        THEN result.usable = result.state.AccessToken
        ELSE IF now <= result.state.ExpiresAt - SkewTicks
             THEN result.usable = result.state.AccessToken
             ELSE result.usable = emptyString

\* C5 witness: a call at the very instant ExpiresAt - 30s, for which
\* usableAccessToken returned the token.
C5_Witness ==
    /\ Called
    /\ result.state.AccessToken # emptyString
    /\ result.state.ExpiresAt # ZeroTime
    /\ now = result.state.ExpiresAt - SkewTicks
    /\ result.usable = result.state.AccessToken

\* C6: buildTokenState resolves the access token and the refresh token each
\* on its own by the precedence environment, project config, user config
\* over non-empty values, and reports the tier of each ("none" when all
\* three are empty).
C6_PrecedencePerField ==
    [][(last' = "ensure" /\ result'.loaded) =>
        LET project == loadConfigFile(projectFile)
            user == loadConfigFile(userFile)
        IN /\ result'.state.AccessToken =
                FirstNonEmpty(env.access, Value(project, configKeyAccessToken),
                              Value(user, configKeyAccessToken))
           /\ result'.state.AccessSource =
                FirstTier(env.access, Value(project, configKeyAccessToken),
                          Value(user, configKeyAccessToken))
           /\ result'.state.RefreshToken =
                FirstNonEmpty(env.refresh, Value(project, configKeyRefreshToken),
                              Value(user, configKeyRefreshToken))
           /\ result'.state.RefreshSource =
                FirstTier(env.refresh, Value(project, configKeyRefreshToken),
                          Value(user, configKeyRefreshToken))]_vars

\* C6 witness: all three tiers hold an access token and the environment's
\* was selected, while the refresh token, absent from the environment, was
\* taken from the project file.
C6_Witness ==
    /\ Called
    /\ Value(loadConfigFile(projectFile), configKeyAccessToken) # emptyString
    /\ Value(loadConfigFile(userFile), configKeyAccessToken) = Str("user-access")
    /\ result.state.AccessToken = Str("env-access")
    /\ result.state.AccessSource = "env"
    /\ env.refresh = emptyString
    /\ result.state.RefreshToken = Str("project-refresh")
    /\ result.state.RefreshSource = "project"

\* C7: usableAccessToken returns an access token that is from the
\* environment even when the stored expiry has passed, and returns nothing
\* for a user-sourced token whose expiry has passed.
C7_EnvTokenKeptWhenExpired ==
    (/\ Called
     /\ result.state.AccessToken # emptyString
     /\ result.state.ExpiresAt # ZeroTime
     /\ now > result.state.ExpiresAt) =>
        /\ result.state.AccessSource = "env" =>
             result.usable = result.state.AccessToken
        /\ result.state.AccessSource = "user" => result.usable = emptyString

C30_SaveFailureNoToken ==
    [][LET written == persistTokens(loadConfigFile(userFile), result'.body,
                                    userFile, "ok").disk
       IN (last' = "ensure" /\ result'.saves = 1 /\ userFile' # written) =>
             /\ result'.err # nil
             /\ result'.err.kind = "save"
             /\ result'.exit # exitCodeSuccess
             /\ result'.token = emptyString
             /\ result'.http = 1]_vars

\* C30 witness: the refresh was granted, the save failed and left the file
\* as it was; the call returned the error and no token.
C30_Witness ==
    /\ last = "ensure"
    /\ result.saves = 1
    /\ result.http = 1
    /\ result.body.AccessToken = Str("new-access")
    /\ result.err.kind = "save"
    /\ result.token = emptyString
    /\ Value(loadConfigFile(userFile), configKeyAccessToken) = Str("user-access")

\* The call before this one refreshed and saved: it found nothing usable,
\* sent the request, saved the reply and returned without error.
RefreshedAndPersisted ==
    /\ last \in {"ensure", "tick"}
    /\ result.loaded
    /\ result.usable = emptyString
    /\ result.http = 1
    /\ result.saves = 1
    /\ result.err = nil

\* C26: a call that follows a call that refreshed and saved, reads the
\* config files and is made before the stored expiry minus the skew,
\* returns the access token the call before it returned and sends no
\* request.
C26_SecondCallSameToken ==
    [][(/\ RefreshedAndPersisted
        /\ last' = "ensure"
        /\ result'.loaded
        /\ result'.state.ExpiresAt # ZeroTime
        /\ now < result'.state.ExpiresAt - SkewTicks) =>
          /\ result'.token = result.token
          /\ result'.http = 0]_vars

(***************************************************************************)
(* Claims about the login flow, checked under SpecLogin.                   *)
(***************************************************************************)
\* C8: a login whose wait received the state-mismatch error of a callback
\* request fails with an error of the auth class: its exit code is 3.
C8_StateMismatchAuthClass ==
    (/\ pc = "done"
     /\ wait.returned
     /\ wait.got = "error"
     /\ wait.err.kind = "stateMismatch") => login.exit = exitCodeAuth

\* C9: the listener's shutdown is invoked at most once; never when the
\* listener was not started; and on every path on which it was started
\* (code, error, timeout or cancellation, failure to open or print the
\* URL) it has been invoked exactly once when waitForAuthCode returns, so
\* also when the login goes on to the exchange or ends.
C9_ShutdownExactlyOnce ==
    [][/\ server'.shutdowns <= 1
       /\ ~server'.started => server'.shutdowns = 0
       /\ (wait'.returned /\ ~wait.returned) =>
            (server.started /\ server.shutdowns = 1 /\ server'.shutdowns = 1)
       /\ (pc' \in {"exchange", "done"} /\ server'.started) =>
            (wait'.returned /\ server'.shutdowns = 1)]_vars

\* C9 witness: a login that received a state mismatch has returned, its
\* listener started and shut down once.
C9_Witness ==
    /\ pc = "done"
    /\ server.started
    /\ wait.returned
    /\ wait.got = "error"
    /\ wait.err.kind = "stateMismatch"
    /\ server.shutdowns = 1
    /\ ~server.listening

\* C10: once the first callback request has delivered its code on the
\* success channel, no other request having arrived before, and
\* waitForAuthCode has received it, further callback requests do not change
\* the outcome (the caller's context being never cancelled):
\* waitForAuthCode returns that code without error and the login goes on to
\* the token exchange with it.
C10_FirstCodeStands ==
    (/\ wait.got = "code"
     /\ wait.from = 1
     /\ wait.seen = 1
     /\ wait.returned
     /\ ctx = "live") =>
        /\ wait.retErr = nil
        /\ wait.retCode = wait.code
        /\ pc \in {"exchange", "done"}
        /\ login.code = wait.code

\* C11: when the caller's context is cancelled while the login waits for
\* the callback, the wait ends with an error and, when waitForAuthCode
\* returns, the shutdown has been invoked and has run to completion: the
\* listener is closed and either no handler is in flight any more or the
\* shutdown's own authShutdownTimeout was reached.
C11_CancelledWaitShutdownCompletes ==
    (wait.got = "cancelled" /\ wait.returned) =>
        /\ wait.retErr # nil
        /\ wait.retCode = emptyString
        /\ server.shutdowns = 1
        /\ ~server.listening
        /\ \/ inflight = <<>>
           \/ wait.shutdownErr.kind = "shutdownDeadlineExceeded"

\* A value is received from one of the two channels of the callback server.
Receives ==
    \/ Len(codeCh') < Len(codeCh)
    \/ Len(errCh') < Len(errCh)

\* C23: the wait of a login consumes one outcome: awaitAuthCode ends on a
\* code, on an error or on the end of its context, also when both channels
\* hold a value; what it returns is that one outcome; it takes at most one
\* value, the head of one channel; and once it has ended no value is
\* received from either channel and its outcome stands.
C23_OneOutcomeConsumed ==
    [][/\ Receives =>
            /\ pc = "awaiting"
            /\ wait.got = "nothing"
            /\ Len(codeCh') + Len(errCh') = Len(codeCh) + Len(errCh) - 1
       /\ (pc = "awaiting" /\ pc' # "awaiting") =>
            /\ wait.got = "nothing"
            /\ wait'.got \in {"code", "error", "timeout", "cancelled"}
            /\ wait'.got = "code" =>
                 /\ codeCh # <<>>
                 /\ wait'.code = Head(codeCh).msg.code
                 /\ wait'.err = nil
                 /\ codeCh' = Tail(codeCh)
                 /\ errCh' = errCh
            /\ wait'.got = "error" =>
                 /\ errCh # <<>>
                 /\ wait'.err = Head(errCh).msg.err
                 /\ wait'.code = emptyString
                 /\ errCh' = Tail(errCh)
                 /\ codeCh' = codeCh
            /\ wait'.got \in {"timeout", "cancelled"} =>
                 /\ wait'.err = NewError("authTimedOut")
                 /\ wait'.code = emptyString
                 /\ codeCh' = codeCh
                 /\ errCh' = errCh
       /\ wait.got # "nothing" =>
            /\ wait'.got = wait.got
            /\ wait'.code = wait.code
            /\ wait'.err = wait.err
            /\ ~Receives]_vars

\* C23 witness: awaitAuthCode has just returned a code while the error
\* channel held a value, which is still there.
C23_Witness ==
    /\ last = "await"
    /\ pc = "stopping"
    /\ wait.got = "code"
    /\ wait.code # emptyString
    /\ wait.err = nil
    /\ errCh # <<>>

\* C24: the handler of a callback request sends the code on the success
\* channel exactly when the request's state is the expected one, it has no
\* error parameter and its code is not empty; for every other request it
\* sends an error on the error channel, the state mismatch before the
\* authorization failure before the missing code, and answers 400.  So the
\* success channel holds codes of state-matching requests only, and so does
\* the wait that received a code and the exchange that follows it.
C24_CodeOnlyForMatchingState ==
    [][/\ last' = "arrive" =>
            LET request == server'.request
                handler == inflight'[Len(inflight')]
                valid == /\ request.state = "expected"
                         /\ request.error = ""
                         /\ request.code # emptyString
            IN /\ handler.from = request.n
               /\ handler.ch = IF valid THEN "codeCh" ELSE "errCh"
               /\ valid => (handler.code = request.code /\ handler.err = nil)
               /\ ~valid =>
                    /\ handler.status = 400
                    /\ handler.code = emptyString
                    /\ handler.err.kind =
                         IF request.state # "expected" THEN "stateMismatch"
                         ELSE IF request.error # "" THEN "authorizationFailed"
                         ELSE "missingAuthCode"
       /\ \A i \in 1..Len(inflight') :
            inflight'[i].ch = "codeCh" <=> inflight'[i].err = nil
       /\ \A i \in 1..Len(codeCh') :
            /\ codeCh'[i].msg.ch = "codeCh"
            /\ codeCh'[i].msg.code # emptyString
       /\ \A i \in 1..Len(errCh') :
            /\ errCh'[i].msg.ch = "errCh"
            /\ errCh'[i].msg.err # nil
       /\ wait'.got = "code" => (wait'.code # emptyString /\ wait'.from > 0)
       /\ pc' = "exchange" => (wait'.got = "code" /\ login'.code = wait'.code)]_vars

\* C24 witness: the request accepted last had the wrong state, an error
\* parameter and a code; its handler is about to send the state mismatch.
C24_Witness ==
    /\ last = "arrive"
    /\ server.request.state = "other"
    /\ server.request.error # ""
    /\ server.request.code # emptyString
    /\ inflight[Len(inflight)].err = NewError("stateMismatch")
    /\ inflight[Len(inflight)].status = 400

\* C25: a login starts the listener, then awaits an outcome, then stops the
\* listener, then exchanges.  The exchange request is sent only after a
\* code was received and the shutdown has returned without error; the user
\* file is written only in the step of an exchange that succeeded; a wait
\* that ended with anything but a code is followed by no request and no
\* write.
C25_LoginStepOrder ==
    [][/\ wait'.got # "nothing" => server'.started
       /\ (wait.got = "nothing" /\ wait'.got \notin {"nothing", "openError"}) =>
            (server.started /\ server.shutdowns = 0 /\ pc = "awaiting")
       /\ server'.shutdowns > server.shutdowns =>
            (wait.got # "nothing" /\ ~wait.returned /\ login.http = 0)
       /\ wait'.returned => (wait'.got = "openError" \/ server'.shutdowns = 1)
       /\ login'.http > login.http =>
            /\ wait.got = "code"
            /\ wait.returned
            /\ wait.shutdownErr = nil
            /\ server.shutdowns = 1
            /\ ~server.listening
            /\ login.code = wait.code
       /\ (login'.saves > login.saves \/ userFile' # userFile) =>
            /\ login'.http = 1
            /\ login'.body \in TokenBodies
            /\ wait.got = "code"
       /\ wait'.got \notin {"nothing", "code"} =>
            /\ login'.http = 0
            /\ login'.saves = 0
            /\ userFile' = userFile]_vars

\* C25 witness: a login that received a code, stopped the listener, sent the
\* exchange request and saved the tokens.
C25_Witness ==
    /\ last = "exchange"
    /\ pc = "done"
    /\ wait.got = "code"
    /\ wait.returned
    /\ server.shutdowns = 1
    /\ login.http = 1
    /\ login.saves = 1
    /\ login.err = nil

\* C27: when a code was received and the shutdown of the listener returns
\* an error, waitForAuthCode returns that error and no code; the login ends
\* with that error, sends no exchange request and leaves the user file as
\* it is.
C27_ShutdownErrorDropsCode ==
    [][(wait'.got = "code" /\ wait'.returned /\ wait'.shutdownErr # nil) =>
          /\ wait'.retErr = wait'.shutdownErr
          /\ wait'.retCode = emptyString
          /\ pc' = "done"
          /\ login'.err = wait'.shutdownErr
          /\ login'.exit # exitCodeSuccess
          /\ login'.code = emptyString
          /\ login'.http = 0
          /\ login'.saves = 0
          /\ userFile' = userFile]_vars

\* C27 witness: a code was received, a handler stayed blocked on its full
\* channel and the shutdown ran into its bound.
C27_Witness ==
    /\ last = "stopped"
    /\ wait.got = "code"
    /\ wait.code = Str("code")
    /\ wait.shutdownErr = NewError("shutdownDeadlineExceeded")
    /\ \E i \in 1..Len(inflight) : Blocked(inflight[i])
    /\ login.err = NewError("shutdownDeadlineExceeded")

(***************************************************************************)
(* Claims about both commands, checked under SpecCli.                      *)
(***************************************************************************)
\* The error a refresh or an exchange ended with is of the token request:
\* the request could not be built, failed in transport, or failed for the
\* response (unreadable, non-2xx, undecodable, provider status).
RequestErrors == {"buildRequest", "network", "api"}

\* C12 as claimed: a token-endpoint failure of API origin ends with the API
\* exit code 5 and a transport failure with the network exit code 4, in the
\* exchange of a login and in the refresh of EnsureAccessToken alike; other
\* request errors end with 3 (refresh) or 1 (exchange).
C12_ExitClassesAsClaimed ==
    /\ (result.loaded /\ result.err.kind \in RequestErrors) =>
          result.exit = (CASE result.err.kind = "api" -> exitCodeAPI
                           [] result.err.kind = "network" -> exitCodeNetwork
                           [] OTHER -> exitCodeAuth)
    /\ (pc = "done" /\ login.err.kind \in RequestErrors) =>
          login.exit = (CASE login.err.kind = "api" -> exitCodeAPI
                          [] login.err.kind = "network" -> exitCodeNetwork
                          [] OTHER -> exitCodeFailure)

\* C12 amended: a transport failure ends with the network exit code 4 in
\* both commands; a failure of API origin ends with the API exit code 5 in
\* the exchange of a login, but with the auth exit code 3 in a refresh; the
\* other request errors end with 3 (refresh) or 1 (exchange).
C12_ExitClasses ==
    /\ (result.loaded /\ result.err.kind \in RequestErrors) =>
          result.exit = (CASE result.err.kind = "network" -> exitCodeNetwork
                           [] OTHER -> exitCodeAuth)
    /\ (pc = "done" /\ login.err.kind \in RequestErrors) =>
          login.exit = (CASE login.err.kind = "api" -> exitCodeAPI
                          [] login.err.kind = "network" -> exitCodeNetwork
                          [] OTHER -> exitCodeFailure)

\* C12 witness: a refresh whose one request failed for its response ended
\* with the auth exit code.
C12_Witness ==
    /\ last = "ensure"
    /\ result.loaded
    /\ result.http = 1
    /\ result.err.kind = "api"
    /\ result.exit = exitCodeAuth

\* C14: a login sends at most one request to the token endpoint and so does
\* an EnsureAccessToken call; when the request fails (it cannot be built, or
\* fails in transport or for its response) the invocation ends there with
\* an error: no token, no Save, the user file as it was.
C14_NoRetry ==
    [][/\ result'.http <= 1
       /\ login'.http <= 1
       /\ (last' = "ensure" /\ result'.err.kind \in RequestErrors) =>
            /\ result'.exit # exitCodeSuccess
            /\ result'.token = emptyString
            /\ result'.saves = 0
            /\ userFile' = userFile
       /\ (last' = "exchange" /\ login'.err.kind \in RequestErrors) =>
            /\ pc' = "done"
            /\ login'.exit # exitCodeSuccess
            /\ login'.saves = 0
            /\ userFile' = userFile]_vars

\* C14 witness: a login whose exchange failed in transport has ended, one
\* request sent, nothing saved.
C14_Witness ==
    /\ pc = "done"
    /\ last = "exchange"
    /\ login.err.kind = "network"
    /\ login.http = 1
    /\ login.saves = 0
    /\ login.exit = exitCodeNetwork

\* The step is a successful persist of the response body, by a refresh or
\* by a login.
Persisted(body) ==
    \/ /\ last' = "ensure"
       /\ result'.saves = 1
       /\ result'.err = nil
       /\ body = result'.body
    \/ /\ last' = "exchange"
       /\ login'.saves = 1
       /\ login'.err = nil
       /\ body = login'.body

\* The user file after the step holds, for the six token keys other than
\* refresh_token, what the response body and the time of the persist give.
StoredFrom(body) ==
    LET stored == loadConfigFile(userFile')
    IN /\ Value(stored, configKeyAccessToken) = body.AccessToken
       /\ Value(stored, configKeyTokenType) = body.TokenType
       /\ Value(stored, configKeyScope) = body.Scope
       /\ Value(stored, configKeyUserID) = body.UserID
       /\ Value(stored, configKeyTokenExpiresAt)
            = FormatRFC3339(now + body.ExpiresIn * TicksPerSecond)
       /\ Value(stored, configKeyTokenObtained) = FormatRFC3339(now)

\* C15 as claimed: after every successful persist all seven token keys of
\* the user file come from the one response persisted, a response with an
\* empty refresh_token included.
C15_OneResponseAsClaimed ==
    [][\A body \in TokenBodies :
         Persisted(body) =>
            /\ StoredFrom(body)
            /\ Value(loadConfigFile(userFile'), configKeyRefreshToken)
                 = body.RefreshToken]_vars

\* C15 amended: after every successful persist the token keys of the user
\* file come from the one response persisted, except that a response with
\* an empty refresh_token leaves refresh_token as the file held it before.
C15_OneResponse ==
    [][\A body \in TokenBodies :
         Persisted(body) =>
            /\ StoredFrom(body)
            /\ Value(loadConfigFile(userFile'), configKeyRefreshToken)
                 = IF body.RefreshToken # emptyString
                   THEN body.RefreshToken
                   ELSE Value(loadConfigFile(userFile), configKeyRefreshToken)]_vars

\* C15 witness: a login persisted a response without refresh token and the
\* user file holds the new access token beside the refresh token of before.
C15_Witness ==
    /\ last = "exchange"
    /\ login.saves = 1
    /\ login.err = nil
    /\ login.body.RefreshToken = emptyString
    /\ Value(loadConfigFile(userFile), configKeyAccessToken) = Str("new-access")
    /\ Value(loadConfigFile(userFile), configKeyRefreshToken) = Str("user-refresh")

\* The seven keys of a stored token record.
TokenKeys ==
    {configKeyAccessToken, configKeyRefreshToken, configKeyTokenType,
     configKeyScope, configKeyUserID, configKeyTokenExpiresAt,
     configKeyTokenObtained}

\* C16: after a confirmed or forced logout whose Save succeeded, loading the
\* user config file again yields an empty value for every one of the seven
\* token keys, whatever the file held before.
C16_LogoutDeletesTokens ==
    (last = "logout" /\ logout.saves = 1 /\ logout.err = nil) =>
        \A key \in TokenKeys :
            Value(loadConfigFile(userFile), key) = emptyString

\* C17: a logout without --force changes the user file only after an answer
\* of y or yes was read; with any other answer it returns success and leaves
\* the file as it was; when it cannot prompt (--no-input, or stdin is not a
\* terminal) it fails with a usage error and leaves the file as it was.
C17_LogoutNeedsConfirmation ==
    [][(last' = "logout" /\ logout'.loaded /\ ~logout'.force) =>
          /\ (logout'.noInput \/ ~logout'.tty) =>
                /\ logout'.exit = exitCodeUsage
                /\ logout'.saves = 0
                /\ userFile' = userFile
          /\ (logout'.read /\ lowerTrimmed(logout'.answer) \notin {"y", "yes"}) =>
                /\ logout'.err = nil
                /\ logout'.exit = exitCodeSuccess
                /\ logout'.saves = 0
                /\ userFile' = userFile
          /\ (logout'.saves > 0 \/ userFile' # userFile) =>
                /\ logout'.read
                /\ lowerTrimmed(logout'.answer) \in {"y", "yes"}]_vars

\* C17 witness: a logout without --force was answered "n", returned success,
\* and the user file still holds its tokens.
C17_Witness ==
    /\ last = "logout"
    /\ ~logout.force
    /\ logout.read
    /\ logout.answer = "n"
    /\ logout.exit = exitCodeSuccess
    /\ Value(loadConfigFile(userFile), configKeyAccessToken) = Str("user-access")
    /\ Value(loadConfigFile(userFile), configKeyRefreshToken) = Str("user-refresh")

\* The client_id and client_secret lines of a config file, in file order.
CredentialLines(disk) ==
    SelectSeq(disk.lines,
              LAMBDA line : line.key \in {configKeyClientID, configKeyClientSecret})

\* The invocation that made the last step failed in Save.
SaveFailed(r) == r.err # nil /\ r.err.kind = "save"

\* C18: no step of login, EnsureAccessToken or logout adds a client_id or
\* client_secret line to either config file or changes one: the project file
\* is never written, and the credential lines of the user file are after
\* every step the ones before it (a Save that fails after truncating the
\* file leaves it empty, and never with a credential line it lacked).
C18_CredentialsNeverWritten ==
    [][/\ projectFile' = projectFile
       /\ \/ CredentialLines(userFile') = CredentialLines(userFile)
          \/ /\ CredentialLines(userFile') = <<>>
             /\ SaveFailed(result') \/ SaveFailed(login') \/ SaveFailed(logout')]_vars

\* C18 witness: a logout saved a user file that has a client_id line, and the
\* line is there as written by hand while the tokens beside it are gone.
C18_Witness ==
    /\ last = "logout"
    /\ logout.saves = 1
    /\ logout.err = nil
    /\ CredentialLines(userFile)
         = <<KVLine(configKeyClientID, Str("file-client-id"))>>
    /\ CredentialLines(projectFile)
         = <<KVLine(configKeyClientSecret, Str("file-secret"))>>
    /\ Value(loadConfigFile(userFile), configKeyRefreshToken) = emptyString

\* The lines of a config that are not lines of the seven token keys
\* (comments, blank lines, lines of other keys), in their order.
OtherLines(lines) ==
    SelectSeq(lines, LAMBDA line : line.key \notin TokenKeys)

\* The step just taken was a command whose Save of the user file succeeded.
SavedUserFile ==
    \/ last = "ensure" /\ result.saves = 1 /\ result.err = nil
    \/ last = "exchange" /\ login.saves = 1 /\ login.err = nil
    \/ last = "logout" /\ logout.saves = 1 /\ logout.err = nil

\* C29: a login, a refresh or a logout whose Save succeeded writes back
\* every line of the loaded user file that is not a line of a token key, as
\* it was and in the same order; the only line it may add beside lines of
\* token keys is the empty one after the last line ending.
C29_OtherLinesKept ==
    [][SavedUserFile' =>
          LET before == OtherLines(loadConfigFile(userFile).Lines)
              after == OtherLines(userFile'.lines)
          IN /\ userFile'.exists
             /\ \/ after = before
                \/ after = Append(before, BlankLine)]_vars

\* C29 witness: a refresh saved its tokens in the hand-edited user file:
\* the client_id line and the comment are where they were; the keys that
\* are new to the file were appended after its last line ending, which
\* leaves an empty line before them.
C29_Witness ==
    /\ last = "ensure"
    /\ result.saves = 1
    /\ result.err = nil
    /\ Value(loadConfigFile(userFile), configKeyAccessToken) = Str("new-access")
    /\ OtherLines(userFile.lines)
         = <<KVLine(configKeyClientID, Str("file-client-id")), CommentLine,
             BlankLine, BlankLine>>

(***************************************************************************)
(* The config store as text.  A Go string is a sequence of one-character   *)
(* strings.  The files and values of SpecConfig are made of the letters    *)
(* c j k s w, space, newline, = # [ ] / \ and the double quote; none of    *)
(* these letters is an escape letter of Go's string syntax.  The files of  *)
(* SpecRace hold the token keys and values of letters, digits and "_",     *)
(* and no backslash.  No text holds a single quote or a backquote.         *)
(***************************************************************************)
configLineEnding == "\n"

commentNotFound == -1

\* unicode.IsSpace, on the characters above
IsSpace(char) == char \in {" ", "\t", "\r", "\n"}

Least(S) == CHOOSE i \in S : \A j \in S : i <= j

Greatest(S) == CHOOSE i \in S : \A j \in S : j <= i

\* strings.TrimSpace
TrimSpace(s) ==
    LET kept == {i \in 1..Len(s) : ~IsSpace(s[i])}
    IN IF kept = {} THEN <<>> ELSE SubSeq(s, Least(kept), Greatest(kept))

\* strings.Trim(s, cutset)
Trim(s, cutset) ==
    LET kept == {i \in 1..Len(s) : s[i] \notin cutset}
    IN IF kept = {} THEN <<>> ELSE SubSeq(s, Least(kept), Greatest(kept))

\* strings.HasPrefix
HasPrefix(s, prefix) ==
    Len(s) >= Len(prefix) /\ SubSeq(s, 1, Len(prefix)) = prefix

\* strings.HasSuffix
HasSuffix(s, suffix) ==
    /\ Len(s) >= Len(suffix)
    /\ SubSeq(s, Len(s) - Len(suffix) + 1, Len(s)) = suffix

\* strings.Split(s, sep), sep one character
RECURSIVE Split(_, _)
Split(s, sep) ==
    LET at == {i \in 1..Len(s) : s[i] = sep}
    IN IF at = {}
       THEN <<s>>
       ELSE <<SubSeq(s, 1, Least(at) - 1)>>
              \o Split(SubSeq(s, Least(at) + 1, Len(s)), sep)

\* strings.Join(elems, sep), sep one character
RECURSIVE JoinStrings(_, _)
JoinStrings(elems, sep) ==
    IF Len(elems) = 0 THEN <<>>
    ELSE IF Len(elems) = 1 THEN elems[1]
    ELSE elems[1] \o <<sep>> \o JoinStrings(Tail(elems), sep)

\* strconv.Quote, one character of the value
QuoteChar(char) ==
    CASE char = "\"" -> <<"\\", "\"">>
      [] char = "\\" -> <<"\\", "\\">>
      [] char = "\n" -> <<"\\", "n">>
      [] char = "\t" -> <<"\\", "t">>
      [] char = "\r" -> <<"\\", "r">>
      [] OTHER -> <<char>>

RECURSIVE QuoteChars(_)
QuoteChars(s) ==
    IF s = <<>> THEN <<>> ELSE QuoteChar(Head(s)) \o QuoteChars(Tail(s))

\* func tomlQuote(value string) string: strconv.Quote(value)
tomlQuote(value) == <<"\"">> \o QuoteChars(value) \o <<"\"">>

\* strconv.Unquote past the opening double quote: the characters up to the
\* closing quote with their escapes undone, and what follows that quote.
RECURSIVE UnquoteChars(_)
UnquoteChars(in) ==
    IF in = <<>> \/ in[1] = "\n"
    THEN [ok |-> FALSE, out |-> <<>>, rem |-> <<>>]
    ELSE IF in[1] = "\""
    THEN [ok |-> TRUE, out |-> <<>>, rem |-> Tail(in)]
    ELSE IF in[1] # "\\"
    THEN LET rest == UnquoteChars(Tail(in))
         IN [rest EXCEPT !.out = <<in[1]>> \o rest.out]
    ELSE IF Len(in) < 2 \/ in[2] \notin {"\"", "\\", "n", "t", "r"}
    THEN [ok |-> FALSE, out |-> <<>>, rem |-> <<>>]
    ELSE LET rest == UnquoteChars(SubSeq(in, 3, Len(in)))
             char == CASE in[2] = "n" -> "\n"
                       [] in[2] = "t" -> "\t"
                       [] in[2] = "r" -> "\r"
                       [] OTHER -> in[2]
         IN [rest EXCEPT !.out = <<char>> \o rest.out]

\* strconv.Unquote of a string that holds no single quote and no backquote
Unquote(s) ==
    IF Len(s) < 2 \/ s[1] # "\""
    THEN [ok |-> FALSE, s |-> <<>>]
    ELSE LET inner == UnquoteChars(Tail(s))
         IN IF inner.ok /\ inner.rem = <<>>
            THEN [ok |-> TRUE, s |-> inner.out]
            ELSE [ok |-> FALSE, s |-> <<>>]

\* func isCommentLine(line string) bool
isCommentLine(line) == HasPrefix(line, <<"#">>) \/ HasPrefix(line, <<"/", "/">>)

\* func isSectionLine(line string) bool
isSectionLine(line) == HasPrefix(line, <<"[">>)

\* func isCommentStart(line, index, char, state) bool; index counts from 0
isCommentStart(line, index, char, inSingle, inDouble) ==
    IF inSingle \/ inDouble THEN FALSE
    ELSE IF char = "#" THEN TRUE
    ELSE IF char # "/" THEN FALSE
    ELSE IF index + 1 >= Len(line) THEN FALSE
    ELSE line[index + 2] = "/"

\* The loop of commentStartIndex from index on, with quoteState as it stands
\* there; toggleQuote is the two quote cases.
RECURSIVE commentScan(_, _, _, _)
commentScan(line, index, inSingle, inDouble) ==
    IF index >= Len(line) THEN commentNotFound
    ELSE LET char == line[index + 1]
         IN IF char = "\""
            THEN commentScan(line, index + 1, inSingle,
                             IF inSingle THEN inDouble ELSE ~inDouble)
            ELSE IF char = "'"
            THEN commentScan(line, index + 1,
                             IF inDouble THEN inSingle ELSE ~inSingle, inDouble)
            ELSE IF isCommentStart(line, index, char, inSingle, inDouble)
            THEN index
            ELSE commentScan(line, index + 1, inSingle, inDouble)

\* func commentStartIndex(line string) int
commentStartIndex(line) == commentScan(line, 0, FALSE, FALSE)

\* func stripInlineComment(line string) string
stripInlineComment(line) ==
    IF commentStartIndex(line) = commentNotFound
    THEN line
    ELSE SubSeq(line, 1, commentStartIndex(line))

\* func splitConfigKeyValue(line string) (configKeyValue, bool)
splitConfigKeyValue(line) ==
    LET at == {i \in 1..Len(line) : line[i] = "="}
        key == TrimSpace(SubSeq(line, 1, Least(at) - 1))
        value == TrimSpace(SubSeq(line, Least(at) + 1, Len(line)))
    IN IF at = {} \/ key = <<>>
       THEN [ok |-> FALSE, Key |-> <<>>, Value |-> <<>>]
       ELSE [ok |-> TRUE, Key |-> key, Value |-> value]

\* func parseConfigValue(value string) string
parseConfigValue(value) ==
    IF value = <<>> THEN <<>>
    ELSE IF Unquote(value).ok THEN Unquote(value).s
    ELSE Trim(value, {"\"", "'"})

\* func parseConfigLine(line string) (configKeyValue, bool)
parseConfigLine(line) ==
    LET trimmed == TrimSpace(line)
        pair == splitConfigKeyValue(stripInlineComment(trimmed))
    IN IF trimmed = <<>> \/ isCommentLine(trimmed) \/ isSectionLine(trimmed)
       THEN [ok |-> FALSE, Key |-> <<>>, Value |-> <<>>]
       ELSE IF ~pair.ok
       THEN [ok |-> FALSE, Key |-> <<>>, Value |-> <<>>]
       ELSE [pair EXCEPT !.Value = parseConfigValue(pair.Value)]

\* func (c *configFile) Value(key string) string, on text
ValueText(c, key) ==
    IF key \in DOMAIN c.Values THEN c.Values[key] ELSE <<>>

\* func (c *configFile) parseLines(), on lines of text.  KeyIndex counts
\* from 1, as in the ConfigStore above.
parseLinesText(lines) ==
    LET parsed == {i \in 1..Len(lines) : parseConfigLine(lines[i]).ok}
        keys == {parseConfigLine(lines[i]).Key : i \in parsed}
        lastOf(key) == Greatest({i \in parsed : parseConfigLine(lines[i]).Key = key})
    IN [Lines |-> lines,
        Values |-> [key \in keys |-> parseConfigLine(lines[lastOf(key)]).Value],
        KeyIndex |-> [key \in keys |-> lastOf(key)]]

\* func loadConfigFile(path string) (*configFile, error), on a file of text,
\* the read succeeding
loadConfigFileText(disk) ==
    IF ~disk.exists
    THEN [Lines |-> <<>>, Values |-> <<>>, KeyIndex |-> <<>>, Exists |-> FALSE]
    ELSE LET config == parseLinesText(Split(disk.data, configLineEnding))
         IN [Lines |-> config.Lines, Values |-> config.Values,
             KeyIndex |-> config.KeyIndex, Exists |-> TRUE]

\* Set, were it to append a line whether or not the key has one
SetText_AlwaysAppend(c, key, value) ==
    [c EXCEPT !.Lines = Append(c.Lines, key \o <<" ", "=", " ">> \o tomlQuote(value)),
              !.KeyIndex = MapPut(c.KeyIndex, key, Len(c.Lines) + 1),
              !.Values = MapPut(c.Values, key, value)]

\* func (c *configFile) Set(key, value string), on lines of text
SetText(c, key, value) ==
    LET line == key \o <<" ", "=", " ">> \o tomlQuote(value)
    IN IF key \in DOMAIN c.KeyIndex
       THEN [c EXCEPT !.Lines[c.KeyIndex[key]] = line,
                      !.Values = MapPut(c.Values, key, value)]
       ELSE [c EXCEPT !.Lines = Append(c.Lines, line),
                      !.KeyIndex = MapPut(c.KeyIndex, key, Len(c.Lines) + 1),
                      !.Values = MapPut(c.Values, key, value)]

\* Save, were it to end the data with a line ending of its own always
SaveData_AlwaysNewline(c) ==
    JoinStrings(c.Lines, configLineEnding) \o <<configLineEnding>>

\* func (c *configFile) Save() error: the data handed to os.WriteFile
SaveData(c) ==
    LET data == JoinStrings(c.Lines, configLineEnding)
    IN IF Len(c.Lines) > 0 /\ ~HasSuffix(data, <<configLineEnding>>)
       THEN data \o <<configLineEnding>>
       ELSE data

\* func (c *configFile) Save() error: the file afterwards
SaveText(c, disk, outcome) ==
    CASE outcome = "ok" -> [exists |-> TRUE, data |-> SaveData(c)]
      [] outcome = "failed" -> disk
      [] outcome = "truncated" -> [exists |-> TRUE, data |-> <<>>]

(***************************************************************************)
(* SpecConfig: one process loads a config file, sets and unsets keys and   *)
(* saves.  The file is any text of up to MaxLines lines drawn from          *)
(* SampleLines, with or without a final line ending, or is absent.         *)
(***************************************************************************)
MaxLines == 2

MaxOps == 2

SampleLines ==
    {<<>>,
     <<"#", " ", "c">>,
     <<"[", "s", "]">>,
     <<" ", "k", "=", "w", " ", "#", " ", "c">>,
     <<"j", " ", "=", " ", "\"", "c", "\"">>}

RECURSIVE LineSeqs(_)
LineSeqs(n) ==
    IF n = 0 THEN {<<>>}
    ELSE LineSeqs(n - 1)
           \cup {Append(lines, line) : lines \in LineSeqs(n - 1), line \in SampleLines}

ConfigTexts ==
    {JoinStrings(lines, configLineEnding) \o ending :
        lines \in LineSeqs(MaxLines) \ {<<>>},
        ending \in {<<>>, <<configLineEnding>>}}

ConfigKeys == {<<"k">>, <<"j">>}

ConfigValues == {<<"s">>, <<"\"", "#">>}

InitConfig ==
    /\ env \in CliEnvs
    /\ projectFile = AbsentFile
    /\ userFile = AbsentFile
    /\ now = 0
    /\ result = NoResult
    /\ last = "init"
    /\ NoLogin
    /\ logout = NoLogout
    /\ \E disk \in {[exists |-> FALSE, data |-> <<>>]}
                     \cup {[exists |-> TRUE, data |-> data] : data \in ConfigTexts} :
          store = [NoStore EXCEPT !.disk = disk]
    /\ race = NoRace

ConfigUnchanged ==
    /\ UNCHANGED <<env, projectFile, userFile, now, result, logout, race>>
    /\ UNCHANGED loginVars

\* loadConfigFile(path), by the first process and by one that starts after
\* a Save
LoadConfig ==
    /\ last \in {"init", "save"}
    /\ last' = "load"
    /\ store' = [store EXCEPT !.c = loadConfigFileText(store.disk),
                              !.loaded = TRUE, !.fromFile = store.disk.exists,
                              !.read = store.disk.data,
                              !.dirty = FALSE,
                              !.key = <<>>, !.value = <<>>, !.saveErr = nil]
    /\ ConfigUnchanged

\* config.Set(key, value)
SetKey ==
    /\ store.loaded
    /\ store.ops < MaxOps
    /\ last' = "set"
    /\ \E key \in ConfigKeys, value \in ConfigValues :
          store' = [store EXCEPT !.c = SetText(store.c, key, value),
                                 !.dirty = TRUE, !.ops = store.ops + 1,
                                 !.key = key, !.value = value, !.saveErr = nil]
    /\ ConfigUnchanged

\* config.Unset(key)
UnsetKey ==
    /\ store.loaded
    /\ store.ops < MaxOps
    /\ last' = "unset"
    /\ \E key \in ConfigKeys :
          store' = [store EXCEPT !.c = Unset(store.c, key),
                                 !.dirty = TRUE, !.ops = store.ops + 1,
                                 !.key = key, !.value = <<>>, !.saveErr = nil]
    /\ ConfigUnchanged

\* config.Save()
SaveConfig ==
    /\ store.loaded
    /\ last' = "save"
    /\ \E outcome \in SaveOutcomes :
          store' = [store EXCEPT
                      !.disk = SaveText(store.c, store.disk, outcome),
                      !.c.Exists = IF outcome = "ok" THEN TRUE ELSE store.c.Exists,
                      !.saveErr = IF outcome = "ok" THEN nil ELSE NewError("save")]
    /\ ConfigUnchanged

NextConfig ==
    \/ LoadConfig
    \/ SetKey
    \/ UnsetKey
    \/ SaveConfig

SpecConfig == InitConfig /\ [][NextConfig]_vars

(***************************************************************************)
(* Claims about the config store, checked under SpecConfig.                *)
(***************************************************************************)

\* C19: a Save that follows a Load with no Set or Unset in between writes the
\* content that was read, with one line ending added when it did not end in
\* one: every line, comment, blank, section header or key line, is written
\* back as it was spelled.
C19_LoadSaveRoundTrip ==
    [][(last' = "save" /\ store.fromFile /\ ~store.dirty /\ store'.saveErr = nil) =>
          /\ store'.disk.exists
          /\ store'.disk.data
               = IF HasSuffix(store.read, <<configLineEnding>>)
                 THEN store.read
                 ELSE store.read \o <<configLineEnding>>
          /\ LET before == Split(store.read, configLineEnding)
                 after == Split(store'.disk.data, configLineEnding)
             IN SubSeq(after, 1, Len(before)) = before]_vars

\* C19 witness: a file of a comment and a hand-spelled key line with an
\* inline comment, ending in a line ending, was loaded and saved, and the
\* file holds those very characters.
C19_Witness ==
    /\ last = "save"
    /\ ~store.dirty
    /\ store.saveErr = nil
    /\ store.fromFile
    /\ store.disk.data
         = <<"#", " ", "c">> \o <<configLineEnding>> \o <<" ", "k", "=", "w", " ", "#", " ", "c">> \o <<configLineEnding>>

\* C20: after Set(k, v), ValueText(k) is v; when the store held k, a line of k,
\* at its position, is the one rewritten, and the number of lines and every
\* other line are as before, however many Sets and Unsets came earlier; when
\* the store did not hold k, exactly one line is appended.
C20_SetRewritesInPlace ==
    [][last' = "set" =>
          LET before == store.c
              after == store'.c
              key == store'.key
          IN /\ ValueText(after, key) = store'.value
             /\ IF key \in DOMAIN before.Values
                THEN /\ Len(after.Lines) = Len(before.Lines)
                     /\ \E i \in 1..Len(before.Lines) :
                          /\ parseConfigLine(before.Lines[i]).ok
                          /\ parseConfigLine(before.Lines[i]).Key = key
                          /\ parseConfigLine(after.Lines[i]).ok
                          /\ parseConfigLine(after.Lines[i]).Key = key
                          /\ after.Lines[i] = key \o <<" ", "=", " ">>
                                                \o tomlQuote(store'.value)
                          /\ \A j \in (1..Len(before.Lines)) \ {i} :
                               after.Lines[j] = before.Lines[j]
                ELSE /\ Len(after.Lines) = Len(before.Lines) + 1
                     /\ SubSeq(after.Lines, 1, Len(before.Lines)) = before.Lines
                     /\ parseConfigLine(after.Lines[Len(after.Lines)]).Key = key]_vars

\* C20 witness: a second Set in a row on a key the file spelled by hand in its
\* first line: the line is rewritten where it was, the comment after it is
\* untouched, and there are as many lines as were loaded.
C20_Witness ==
    /\ last = "set"
    /\ store.ops = 2
    /\ store.key = <<"k">>
    /\ ValueText(store.c, <<"k">>) = <<"\"", "#">>
    /\ store.c.Lines
         = <<<<"k">> \o <<" ", "=", " ">> \o tomlQuote(<<"\"", "#">>),
             <<"#", " ", "c">>, <<>>>>
    /\ store.disk.data
         = <<" ", "k", "=", "w", " ", "#", " ", "c">> \o <<configLineEnding>> \o <<"#", " ", "c">> \o <<configLineEnding>>

\* Every key the store holds is recorded with the index of a line of its own.
IndexesPointAtOwnLines(c) ==
    \A key \in DOMAIN c.KeyIndex :
        /\ c.KeyIndex[key] \in 1..Len(c.Lines)
        /\ parseConfigLine(c.Lines[c.KeyIndex[key]]).ok
        /\ parseConfigLine(c.Lines[c.KeyIndex[key]]).Key = key

\* C21: Unset of a key the store does not hold changes nothing; Unset of a
\* key it holds removes exactly one line, a line of that key, and keeps the
\* other lines in their order and the values of the other keys; and after
\* every Set and Unset each remaining key is recorded with the index of a
\* line of its own.
C21_UnsetKeepsIndexes ==
    [][/\ last' \in {"set", "unset"} => IndexesPointAtOwnLines(store'.c)
       /\ last' = "unset" =>
            LET before == store.c
                after == store'.c
                key == store'.key
            IN IF key \notin DOMAIN before.Values
               THEN after = before
               ELSE /\ Len(after.Lines) = Len(before.Lines) - 1
                    /\ \E i \in 1..Len(before.Lines) :
                         /\ parseConfigLine(before.Lines[i]).ok
                         /\ parseConfigLine(before.Lines[i]).Key = key
                         /\ after.Lines = RemoveAt(before.Lines, i)
                    /\ DOMAIN after.Values = DOMAIN before.Values \ {key}
                    /\ DOMAIN after.KeyIndex = DOMAIN after.Values
                    /\ \A other \in DOMAIN after.Values :
                         /\ ValueText(after, other) = ValueText(before, other)
                         /\ after.Lines[after.KeyIndex[other]]
                              = before.Lines[before.KeyIndex[other]]]_vars

\* C21 witness: the key of the first line was unset and the key of the line
\* after it is now recorded at index 1, where its line has moved.
C21_Witness ==
    /\ last = "unset"
    /\ store.key = <<"j">>
    /\ store.read = <<"j", " ", "=", " ", "\"", "c", "\"">> \o <<configLineEnding>>
                      \o <<" ", "k", "=", "w", " ", "#", " ", "c">>
    /\ store.ops = 1
    /\ store.c.Lines = <<<<" ", "k", "=", "w", " ", "#", " ", "c">>>>
    /\ store.c.KeyIndex[<<"k">>] = 1
    /\ ValueText(store.c, <<"k">>) = <<"w">>

\* C28: a Load that follows a Save without error that followed Set(k, v)
\* gives v for k.
C28_SetSaveLoadRoundTrip ==
    [][(/\ last = "save"
        /\ store.saveErr = nil
        /\ store.key \in DOMAIN store.c.Values
        /\ store.c.Values[store.key] = store.value
        /\ last' = "load") =>
          ValueText(store'.c, store.key) = store.value]_vars

(***************************************************************************)
(* SpecRace: two CLI invocations run ensureAccessToken side by side on one *)
(* user config file, held as text.  The environment holds the client       *)
(* credentials and no token, and there is no project config, so that both  *)
(* tokens of the token state come from the user file.  Each invocation     *)
(* goes through loadTokenState, the refresh request, the Sets of           *)
(* persistTokens and Save; os.WriteFile in Save is two steps, the open     *)
(* that truncates the file and the write at offset 0 of the descriptor.    *)
(***************************************************************************)
RaceProcs == {1, 2}

\* The key as the characters written to the file.
KeyText(key) ==
    CASE key = configKeyAccessToken -> 
             <<"a", "c", "c", "e", "s", "s", "_", "t", "o", "k", "e", "n">>
      [] key = configKeyRefreshToken -> 
             <<"r", "e", "f", "r", "e", "s", "h", "_", "t", "o", "k", "e", "n">>
      [] key = configKeyTokenType -> 
             <<"t", "o", "k", "e", "n", "_", "t", "y", "p", "e">>
      [] key = configKeyScope -> 
             <<"s", "c", "o", "p", "e">>
      [] key = configKeyUserID -> 
             <<"u", "s", "e", "r", "_", "i", "d">>
      [] key = configKeyTokenExpiresAt -> 
             <<"t", "o", "k", "e", "n", "_", "e", "x", "p", "i", "r", "e", "s", "_", "a", "t">>
      [] key = configKeyTokenObtained -> 
             <<"t", "o", "k", "e", "n", "_", "o", "b", "t", "a", "i", "n", "e", "d", "_", "a", "t">>

Digit(n) ==
    CASE n = 0 -> "0" [] n = 1 -> "1" [] n = 2 -> "2" [] n = 3 -> "3"
      [] n = 4 -> "4" [] n = 5 -> "5" [] n = 6 -> "6" [] n = 7 -> "7"
      [] n = 8 -> "8" [] n = 9 -> "9"

DigitChars == {Digit(n) : n \in 0..9}

DigitValueText(char) == CHOOSE n \in 0..9 : Digit(n) = char

RECURSIVE Decimal(_)
Decimal(n) ==
    IF n < 10 THEN <<Digit(n)>> ELSE Decimal(n \div 10) \o <<Digit(n % 10)>>

RECURSIVE ParseDecimal(_)
ParseDecimal(digits) ==
    IF Len(digits) = 1
    THEN DigitValueText(digits[1])
    ELSE 10 * ParseDecimal(SubSeq(digits, 1, Len(digits) - 1))
           + DigitValueText(digits[Len(digits)])

\* time.Time.Format(time.RFC3339) as text: "T" and the whole seconds
FormatRFC3339Text(time) == <<"T">> \o Decimal(time \div TicksPerSecond)

\* func parseTime(value string) time.Time, on text
parseTimeText(value) ==
    IF value = <<>>
    THEN ZeroTime
    ELSE IF /\ Len(value) >= 2
            /\ value[1] = "T"
            /\ \A i \in 2..Len(value) : value[i] \in DigitChars
         THEN ParseDecimal(Tail(value)) * TicksPerSecond
         ELSE ZeroTime

\* func persistTokens(config, token): its Set calls in their order, on lines
\* of text, time.Now() being obtainedAt
persistTokensSetsText(config, token, obtainedAt) ==
    LET expiresAt == obtainedAt + token.ExpiresIn * TicksPerSecond
        c1 == SetText(config, KeyText(configKeyAccessToken), token.AccessToken)
        c2 == IF token.RefreshToken # <<>>
              THEN SetText(c1, KeyText(configKeyRefreshToken), token.RefreshToken)
              ELSE c1
        c3 == SetText(c2, KeyText(configKeyTokenType), token.TokenType)
        c4 == SetText(c3, KeyText(configKeyScope), token.Scope)
        c5 == SetText(c4, KeyText(configKeyUserID), token.UserID)
        c6 == SetText(c5, KeyText(configKeyTokenExpiresAt),
                      FormatRFC3339Text(expiresAt))
    IN SetText(c6, KeyText(configKeyTokenObtained), FormatRFC3339Text(obtainedAt))

\* func buildTokenState(projectConfig, userConfig) tokenState, the
\* environment and the project config holding no token
buildTokenStateText(userConfig) ==
    LET accessToken == ValueText(userConfig, KeyText(configKeyAccessToken))
        refreshTok == ValueText(userConfig, KeyText(configKeyRefreshToken))
    IN [AccessToken |-> accessToken,
        AccessSource |-> IF accessToken # <<>> THEN "user" ELSE "none",
        RefreshToken |-> refreshTok,
        RefreshSource |-> IF refreshTok # <<>> THEN "user" ELSE "none",
        ExpiresAt |-> parseTimeText(ValueText(userConfig, KeyText(configKeyTokenExpiresAt)))]

\* func usableAccessToken(state tokenState) string, on text
usableAccessTokenText(state) ==
    IF state.AccessToken = <<>>
    THEN <<>>
    ELSE IF shouldRefresh(state.ExpiresAt) THEN <<>> ELSE state.AccessToken

\* The bytes of a file after a write of data at offset 0 of a descriptor that
\* was opened before: data, and what the file held beyond the length of data.
WriteAtStart(held, data) == data \o SubSeq(held, Len(data) + 1, Len(held))

\* The length of the longer access token a reply may carry.
LongTokenLen == 30

RECURSIVE Repeat(_, _)
Repeat(char, n) == IF n = 0 THEN <<>> ELSE <<char>> \o Repeat(char, n - 1)

\* The token bodies of the replies to a refresh request: they differ in their
\* access token, which is one character or LongTokenLen characters long.
RaceBodies ==
    {[AccessToken |-> access, RefreshToken |-> <<"c">>,
      ExpiresIn |-> tokenRefreshSkew + 1, TokenType |-> <<"B">>,
      Scope |-> <<"s">>, UserID |-> <<"4">>] :
        access \in {<<"w">>, Repeat("k", LongTokenLen)}}

\* The token record an earlier login wrote, its expiry passed.
StaleFile ==
    LET config == [Lines |-> <<>>, Values |-> <<>>, KeyIndex |-> <<>>,
                   Exists |-> FALSE]
        token == [AccessToken |-> <<"j">>, RefreshToken |-> <<"j">>,
                  ExpiresIn |-> 0, TokenType |-> <<"B">>, Scope |-> <<"s">>,
                  UserID |-> <<"4">>]
    IN [exists |-> TRUE, data |-> SaveData(persistTokensSetsText(config, token, 0))]

\* An invocation that has not started.
NotStarted ==
    [pc |-> "start",
     c |-> [Lines |-> <<>>, Values |-> <<>>, KeyIndex |-> <<>>, Exists |-> FALSE],
     state |-> [AccessToken |-> <<>>, AccessSource |-> "", RefreshToken |-> <<>>,
                RefreshSource |-> "", ExpiresAt |-> ZeroTime],
     body |-> [AccessToken |-> <<>>, RefreshToken |-> <<>>, ExpiresIn |-> 0,
               TokenType |-> <<>>, Scope |-> <<>>, UserID |-> <<>>],
     data |-> <<>>, token |-> <<>>, err |-> nil, http |-> 0]

InitRace ==
    /\ env \in CliEnvs
    /\ projectFile = AbsentFile
    /\ userFile = AbsentFile
    /\ now = 0
    /\ result = NoResult
    /\ last = "init"
    /\ NoLogin
    /\ logout = NoLogout
    /\ store = NoStore
    /\ race = [disk |-> StaleFile, proc |-> [p \in RaceProcs |-> NotStarted],
               saved |-> <<>>]

RaceUnchanged ==
    /\ UNCHANGED <<env, projectFile, userFile, now, result, logout, store>>
    /\ UNCHANGED loginVars

\* Invocation p returns token and err.
RaceReturn(p, token, err) ==
    [race.proc[p] EXCEPT !.pc = "done", !.token = token, !.err = err]

\* ensureAccessToken up to the refresh request: loadTokenState,
\* usableAccessToken, and the first tests of refreshAccessToken.
RaceLoad(p) ==
    /\ race.proc[p].pc = "start"
    /\ last' = "load"
    /\ LET userConfig == loadConfigFileText(race.disk)
           state == buildTokenStateText(userConfig)
           loaded == [race.proc[p] EXCEPT !.c = userConfig, !.state = state]
       IN race' = [race EXCEPT !.proc[p] =
             IF usableAccessTokenText(state) # <<>>
             THEN [loaded EXCEPT !.pc = "done",
                                 !.token = usableAccessTokenText(state)]
             ELSE IF state.RefreshToken = <<>>
             THEN [loaded EXCEPT !.pc = "done",
                                 !.err = newExitError(exitCodeAuth,
                                                      NewError("authRequired"))]
             ELSE [loaded EXCEPT !.pc = "refresh"]]
    /\ RaceUnchanged

\* refreshAccessToken from the refresh request to the call of Save: the
\* reply, and the Sets of persistTokens.
RaceRefresh(p) ==
    /\ race.proc[p].pc = "refresh"
    /\ last' = "refresh"
    /\ \/ race' = [race EXCEPT !.proc[p] =
             [RaceReturn(p, <<>>, classifyRefreshError(NewError("network")))
                EXCEPT !.http = 1]]
       \/ \E body \in RaceBodies :
             LET config == persistTokensSetsText(race.proc[p].c, body, now)
             IN race' = [race EXCEPT !.proc[p] =
                   [race.proc[p] EXCEPT !.pc = "save", !.http = 1, !.body = body,
                                        !.c = config, !.data = SaveData(config)]]
    /\ RaceUnchanged

\* Save up to the open of os.WriteFile: the open fails and the file is as it
\* was, or it succeeds and the file is empty.
RaceOpen(p) ==
    /\ race.proc[p].pc = "save"
    /\ last' = "open"
    /\ \/ race' = [race EXCEPT !.proc[p] = RaceReturn(p, <<>>, NewError("save"))]
       \/ race' = [race EXCEPT !.disk = [exists |-> TRUE, data |-> <<>>],
                               !.proc[p].pc = "write"]
    /\ RaceUnchanged

\* The write of os.WriteFile and the return of refreshAccessToken: the write
\* fails, or the data go to the start of the file.
RaceWrite(p) ==
    /\ race.proc[p].pc = "write"
    /\ last' = "write"
    /\ \/ race' = [race EXCEPT !.proc[p] = RaceReturn(p, <<>>, NewError("save"))]
       \/ race' = [race EXCEPT
                     !.disk.data = WriteAtStart(race.disk.data, race.proc[p].data),
                     !.saved = Append(race.saved, p),
                     !.proc[p] = RaceReturn(p, race.proc[p].body.AccessToken, nil)]
    /\ RaceUnchanged

NextRace ==
    \/ \E p \in RaceProcs : RaceLoad(p)
    \/ \E p \in RaceProcs : RaceRefresh(p)
    \/ \E p \in RaceProcs : RaceOpen(p)
    \/ \E p \in RaceProcs : RaceWrite(p)
    \/ Tick

SpecRace == InitRace /\ [][NextRace]_vars

(***************************************************************************)
(* Claims about invocations side by side, checked under SpecRace.          *)
(***************************************************************************)

\* Both invocations have returned.
BothDone == \A p \in RaceProcs : race.proc[p].pc = "done"

\* Both invocations sent a refresh request and saved.
BothRefreshed ==
    /\ BothDone
    /\ \A p \in RaceProcs : race.proc[p].http = 1
    /\ Len(race.saved) = 2

\* C22: once two invocations that both refreshed and saved have returned,
\* the user file holds, for each of the seven token keys, the value that the
\* invocation whose Save returned last has written, and so one invocation's
\* token set and no mix of the two.
C22_LastWriterWins ==
    BothRefreshed =>
        LET winner == race.proc[race.saved[2]]
            onDisk == loadConfigFileText(race.disk)
        IN \A key \in TokenKeys :
              ValueText(onDisk, KeyText(key)) = ValueText(winner.c, KeyText(key))

====
